---- MODULE Spec2Model ----
(***************************************************************************)
(* Model of the KOCSEA passport image creator:                             *)
(*   - passport_photo.py: the normalize pipeline (process_passport_photo)  *)
(*     and its helpers (_detect_face_landmarks, _resize_bgr,               *)
(*     _crop_square_with_padding, _white_background_with_rembg);           *)
(*   - passportshop/validation/validator.py: validate_passport_photo and   *)
(*     its helpers.                                                        *)
(*                                                                         *)
(* Numbers.  Python floats are modelled by exact rationals: a value is an  *)
(* integer, or a numerator over a positive denominator, and a comparison   *)
(* is a cross multiplication.  head_ratio is held in hundredths            *)
(* (0.62 is 62), fractions such as 0.95 and 0.02 in hundredths, and the    *)
(* BT.709 luma weights in ten-thousandths.  The inputs are chosen on grids *)
(* where the float results are exact or far from every threshold, so the   *)
(* rational comparison and the float comparison agree.                     *)
(***************************************************************************)
EXTENDS Integers, Sequences, FiniteSets, TLC

\* Python's None, as a record so that it compares with every optional value
None == [none |-> TRUE]

(***************************************************************************)
(* Bounds of the model.                                                    *)
(***************************************************************************)
\* largest width and height of an image handed to validate_passport_photo
MaxDim == 3
\* largest landmark pixel coordinate reported by the face mesh
MaxCoord == 2
\* largest side of the square asked of _crop_square_with_padding on its own
MaxCropSize == 3

(***************************************************************************)
(* Arithmetic helpers.                                                     *)
(***************************************************************************)
Max(a, b) == IF a >= b THEN a ELSE b

Min(a, b) == IF a <= b THEN a ELSE b

Abs(a) == IF a >= 0 THEN a ELSE 0 - a

\* floor(n / d) for d > 0 and any integer n
FloorDiv(n, d) == IF n >= 0 THEN n \div d ELSE 0 - ((0 - n + d - 1) \div d)

\* Python 3 round(n / d) for d > 0: to the nearest integer, an exact half to
\* the even neighbour.
PyRound(n, d) ==
    LET q == FloorDiv(n, d)
        r == n - q * d
    IN  IF 2 * r < d THEN q
        ELSE IF 2 * r > d THEN q + 1
        ELSE IF q % 2 = 0 THEN q ELSE q + 1

(***************************************************************************)
(* Python floats where one unit in the last place decides: IEEE 754        *)
(* binary64, round to nearest, ties to even.  A whole number of any size   *)
(* is a sequence of limbs base 2^15, lowest first, without leading zeros.  *)
(* A float is [neg, m, e], the value (-1)^neg * m * 2^e with m of 53 bits, *)
(* or m = <<>> for zero.  (No infinities, NaNs or subnormals: the values   *)
(* here lie between 2^-1000 and 2^1000.)                                   *)
(***************************************************************************)
LimbBase == 2 ^ 15

RECURSIVE BigTrim(_)
BigTrim(a) ==
    IF a # <<>> /\ a[Len(a)] = 0 THEN BigTrim(SubSeq(a, 1, Len(a) - 1)) ELSE a

RECURSIVE BigOfNat(_)
BigOfNat(n) == IF n = 0 THEN <<>> ELSE <<n % LimbBase>> \o BigOfNat(n \div LimbBase)

RECURSIVE BigToNat(_)
BigToNat(a) == IF a = <<>> THEN 0 ELSE a[1] + LimbBase * BigToNat(Tail(a))

Limb(a, i) == IF i <= Len(a) THEN a[i] ELSE 0

RECURSIVE BigMulCarry(_, _, _)
BigMulCarry(a, k, carry) ==
    IF a = <<>> THEN BigOfNat(carry)
    ELSE <<(a[1] * k + carry) % LimbBase>>
         \o BigMulCarry(Tail(a), k, (a[1] * k + carry) \div LimbBase)

\* a * k for 0 <= k < 2^15
BigMulSmall(a, k) == BigTrim(BigMulCarry(a, k, 0))

DivAppend(rest, digit) == [q |-> Append(rest.q, digit), r |-> rest.r]

RECURSIVE BigDivFrom(_, _, _, _)
BigDivFrom(a, k, i, rem) ==
    IF i = 0 THEN [q |-> <<>>, r |-> rem]
    ELSE DivAppend(BigDivFrom(a, k, i - 1, (rem * LimbBase + a[i]) % k),
                   (rem * LimbBase + a[i]) \div k)

DivTrim(d) == [q |-> BigTrim(d.q), r |-> d.r]

\* quotient q and remainder r of a by k, for 0 < k <= 2^15
BigDivSmall(a, k) == DivTrim(BigDivFrom(a, k, Len(a), 0))

RECURSIVE BigAddFrom(_, _, _, _)
BigAddFrom(a, b, i, carry) ==
    IF i > Max(Len(a), Len(b)) THEN BigOfNat(carry)
    ELSE <<(Limb(a, i) + Limb(b, i) + carry) % LimbBase>>
         \o BigAddFrom(a, b, i + 1, (Limb(a, i) + Limb(b, i) + carry) \div LimbBase)

BigAdd(a, b) == BigAddFrom(a, b, 1, 0)

RECURSIVE BigSubFrom(_, _, _, _)
BigSubFrom(a, b, i, borrow) ==
    IF i > Len(a) THEN <<>>
    ELSE <<(Limb(a, i) - Limb(b, i) - borrow + LimbBase) % LimbBase>>
         \o BigSubFrom(a, b, i + 1, IF Limb(a, i) - Limb(b, i) - borrow < 0 THEN 1 ELSE 0)

\* a - b for a >= b
BigSub(a, b) == BigTrim(BigSubFrom(a, b, 1, 0))

RECURSIVE BigCmpFrom(_, _, _)
BigCmpFrom(a, b, i) ==
    IF i = 0 THEN 0
    ELSE IF a[i] < b[i] THEN 0 - 1
    ELSE IF a[i] > b[i] THEN 1
    ELSE BigCmpFrom(a, b, i - 1)

\* -1, 0, 1 as a is less than, equal to, greater than b
BigCmp(a, b) ==
    IF Len(a) < Len(b) THEN 0 - 1
    ELSE IF Len(a) > Len(b) THEN 1
    ELSE BigCmpFrom(a, b, Len(a))

RECURSIVE BitLen(_)
BitLen(n) == IF n = 0 THEN 0 ELSE 1 + BitLen(n \div 2)

BigBitLen(a) == IF a = <<>> THEN 0 ELSE 15 * (Len(a) - 1) + BitLen(a[Len(a)])

RECURSIVE BigShl(_, _)
\* a * 2^s
BigShl(a, s) ==
    IF s = 0 THEN a
    ELSE IF s >= 14 THEN BigShl(BigMulSmall(a, 2 ^ 14), s - 14)
    ELSE BigMulSmall(a, 2 ^ s)

ShrStep(d, sticky) == [q |-> d.q, sticky |-> sticky \/ d.r # 0]

RECURSIVE BigShr(_, _, _)
\* floor(a / 2^s), and whether a bit other than 0 was shifted out
BigShr(a, s, sticky) ==
    IF s = 0 THEN [q |-> a, sticky |-> sticky]
    ELSE IF s >= 14
      THEN BigShr(BigDivSmall(a, 2 ^ 14).q, s - 14, sticky \/ BigDivSmall(a, 2 ^ 14).r # 0)
    ELSE ShrStep(BigDivSmall(a, 2 ^ s), sticky)

\* the last bit shifted out decides with the bits before it and the bit kept
RoundLastBit(d, sticky) ==
    IF d.r = 1 /\ (sticky \/ Limb(d.q, 1) % 2 = 1) THEN BigAdd(d.q, <<1>>) ELSE d.q

RoundShifted(r) == RoundLastBit(BigDivSmall(r.q, 2), r.sticky)

\* a / 2^s rounded to the nearest whole number, a half to the even one (s > 0)
BigShrRound(a, s) == RoundShifted(BigShr(a, s - 1, FALSE))

FlZero == [neg |-> FALSE, m |-> <<>>, e |-> 0]

FlNorm(neg, q, e) ==
    IF BigBitLen(q) > 53 THEN [neg |-> neg, m |-> BigDivSmall(q, 2).q, e |-> e + 1]
    ELSE [neg |-> neg, m |-> q, e |-> e]

\* the float nearest to (-1)^neg * M * 2^e
Fl(neg, M, e) ==
    IF M = <<>> THEN FlZero
    ELSE IF BigBitLen(M) <= 53
      THEN [neg |-> neg, m |-> BigShl(M, 53 - BigBitLen(M)), e |-> e - (53 - BigBitLen(M))]
    ELSE FlNorm(neg, BigShrRound(M, BigBitLen(M) - 53), e + BigBitLen(M) - 53)

\* float(n)
FlOfInt(n) == Fl(n < 0, BigOfNat(Abs(n)), 0)

\* x * float(k) for a whole number k, |k| < 2^15
FlMulInt(x, k) == Fl(x.neg # (k < 0), BigMulSmall(x.m, Abs(k)), x.e)

StickyBit(d) == BigAdd(BigMulSmall(d.q, 2), IF d.r # 0 THEN <<1>> ELSE <<>>)

\* x / float(k) for a whole number k, 0 < k < 2^15
FlDivInt(x, k) == Fl(x.neg, StickyBit(BigDivSmall(BigShl(x.m, 30), k)), x.e - 31)

SignedSum(xneg, X, yneg, Y, e) ==
    IF xneg = yneg THEN Fl(xneg, BigAdd(X, Y), e)
    ELSE IF BigCmp(X, Y) >= 0 THEN Fl(xneg, BigSub(X, Y), e)
    ELSE Fl(yneg, BigSub(Y, X), e)

FlAddSigned(x, yneg, y) ==
    IF y.m = <<>> THEN x
    ELSE IF x.m = <<>> THEN [y EXCEPT !.neg = yneg]
    ELSE SignedSum(x.neg, BigShl(x.m, x.e - Min(x.e, y.e)),
                   yneg, BigShl(y.m, y.e - Min(x.e, y.e)), Min(x.e, y.e))

\* x - y
FlSub(x, y) == FlAddSigned(x, ~y.neg, y)

\* x <= y
FlLe(x, y) == FlSub(x, y).neg \/ FlSub(x, y).m = <<>>

\* abs(x)
FlAbs(x) == [x EXCEPT !.neg = FALSE]

\* the decimal literal h/100, 0 <= h, as Python reads it: 0.50, 0.69, 0.08
FlHundredths(h) == FlDivInt(FlOfInt(h), 100)

\* int(round(x)) for |x| < 2^30
PyRoundFloat(x) ==
    IF x.m = <<>> THEN 0
    ELSE IF x.e >= 0 THEN (IF x.neg THEN 0 - 1 ELSE 1) * BigToNat(BigShl(x.m, x.e))
    ELSE (IF x.neg THEN 0 - 1 ELSE 1) * BigToNat(BigShrRound(x.m, 0 - x.e))

(***************************************************************************)
(* Pixels and images.  A pixel is a tuple of channel values.  An image is  *)
(* a record with its kind, mode, width w and height h, and                 *)
(*   kind "pixels":  px, a function of <<x, y>> (0-based) to pixels;       *)
(*   kind "uniform": colour, the one colour of all its pixels;             *)
(*   kind "canvas":  what _crop_square_with_padding builds, a canvas of    *)
(*                   colour pad with one patch copied from the image src;  *)
(*   kind "composite": what _white_background_with_rembg builds.           *)
(***************************************************************************)
White == <<255, 255, 255>>

NearWhite == <<245, 245, 245>>

Cream == <<255, 254, 71>>

Grey == <<160, 160, 160>>

Black == <<0, 0, 0>>

Positions(w, h) == (0 .. w - 1) \X (0 .. h - 1)

\* An image of one colour bg, with the pixels of spots painted fg.
Painted(mode, w, h, bg, spots, fg) ==
    [kind |-> "pixels", mode |-> mode, w |-> w, h |-> h,
     px |-> [p \in Positions(w, h) |-> IF p \in spots THEN fg ELSE bg]]

(***************************************************************************)
(* Program constants.                                                      *)
(***************************************************************************)
\* ProcessingParams defaults (core/models.py)
DefaultSize == 600

DefaultHeadRatio == 62

\* process_passport_photo: the accepted ranges of size and head_ratio
MinSize == 200

MinHeadRatio == 50

MaxHeadRatio == 69

\* validate_passport_photo: Head ratio range lo, hi (hundredths)
HeadRatioLo == 50

HeadRatioHi == 69

\* validate_passport_photo: Centering tolerance, 0.08 of the width (hundredths)
CenterTolPct == 8

\* validate_passport_photo: Background whiteness margin, threshold and target
MarginMin == 10

MarginPct == 5

WhiteThr == 245

WhiteTargetPct == 95

\* _lighting_metrics and the Lighting rule
LumaR == 2126

LumaG == 7152

LumaB == 722

LumaScale == 10000

DarkLuma == 10

BrightLuma == 245

MeanLo == 60

MeanHi == 210

StdLo == 15

StdHi == 90

ClipMaxPct == 2

(***************************************************************************)
(* validator.py: helpers.                                                  *)
(***************************************************************************)
\* np.asarray(img): mode L gives a 2-d array, RGB and RGBA a 3-d one
AsArray(img) ==
    [shape |-> IF img.mode = "L" THEN <<img.h, img.w>>
               ELSE <<img.h, img.w, IF img.mode = "RGBA" THEN 4 ELSE 3>>,
     px |-> img.px]

\* _pil_to_np_rgb: grey is stacked three times, an alpha channel is dropped
_pil_to_np_rgb(img) ==
    LET arr == AsArray(img)
        stacked == IF Len(arr.shape) = 2
                     THEN [shape |-> <<arr.shape[1], arr.shape[2], 3>>,
                           px |-> [p \in DOMAIN arr.px |->
                                     <<arr.px[p][1], arr.px[p][1], arr.px[p][1]>>]]
                     ELSE arr
    IN  IF stacked.shape[3] = 4
          THEN [shape |-> <<stacked.shape[1], stacked.shape[2], 3>>,
                px |-> [p \in DOMAIN stacked.px |-> SubSeq(stacked.px[p], 1, 3)]]
          ELSE stacked

\* mutant of IsNearWhite: the channels joined by "or" instead of "and"
IsNearWhiteAnyChannel(p, thr) == p[1] >= thr \/ p[2] >= thr \/ p[3] >= thr

\* the mask of _near_white_ratio_border: all three channels at least thr
IsNearWhite(p, thr) == p[1] >= thr /\ p[2] >= thr /\ p[3] >= thr

\* img_rgb[y0:y1, x0:x1, :].reshape(-1, 3): its length, and the number of its
\* pixels that the mask keeps
SliceCount(img_rgb, x0, x1, y0, y1, thr) ==
    [len |-> (x1 - x0) * (y1 - y0),
     hits |-> Cardinality({p \in (x0 .. x1 - 1) \X (y0 .. y1 - 1) :
                              IsNearWhite(img_rgb.px[p], thr)})]

\* mask.mean() over the concatenation of the four strips, 0.0 if it is empty
MaskMean(top, bottom, left, right) ==
    IF top.len + bottom.len + left.len + right.len > 0
      THEN [n |-> top.hits + bottom.hits + left.hits + right.hits,
            d |-> top.len + bottom.len + left.len + right.len]
      ELSE [n |-> 0, d |-> 1]

\* m = max(1, min(margin, h // 2, w // 2))
StripWidth(margin, h, w) == Max(1, Min(margin, Min(h \div 2, w \div 2)))

\* _near_white_ratio_border: the fraction [n, d] of near-white pixels among
\* the pixels of the top, bottom, left and right strips, one after the other
_near_white_ratio_border(img_rgb, margin, thr) ==
    LET h == img_rgb.shape[1]
        w == img_rgb.shape[2]
        m == StripWidth(margin, h, w)
    IN  MaskMean(SliceCount(img_rgb, 0, w, 0, Min(m, h), thr),
                 SliceCount(img_rgb, 0, w, h - m, h, thr),
                 SliceCount(img_rgb, 0, Min(m, w), 0, h, thr),
                 SliceCount(img_rgb, w - m, w, 0, h, thr))

\* the luma of one pixel, in ten-thousandths
LumaE4(p) == LumaR * p[1] + LumaG * p[2] + LumaB * p[3]

\* the luma of one pixel as float32 holds it; the colours of the model have
\* their luma on the integer grid, where the division is exact
Luma(p) == LumaE4(p) \div LumaScale

\* the values of luma that occur in the array
Lumas(img_rgb) == {Luma(img_rgb.px[p]) : p \in DOMAIN img_rgb.px}

\* the number of pixels of luma v
LumaCount(img_rgb, v) == Cardinality({p \in DOMAIN img_rgb.px : Luma(img_rgb.px[p]) = v})

RECURSIVE SumLuma(_, _, _, _)
\* the sum of (luma - c)^e over the pixels whose luma is in vs
SumLuma(img_rgb, vs, c, e) ==
    IF vs = {} THEN 0
    ELSE LET v == CHOOSE x \in vs : TRUE
         IN  LumaCount(img_rgb, v) * (IF e = 2 THEN (v - c) * (v - c) ELSE v - c)
             + SumLuma(img_rgb, vs \ {v}, c, e)

\* the metrics from the number of pixels, the sum of the lumas, the sums of
\* the deviations and squared deviations from c, and the two clip counts
LightingMetrics(cnt, s1, d1, d2, dark, bright) ==
    [luma_mean |-> [n |-> s1, d |-> cnt],
     luma_std |-> [sqrt_of |-> [n |-> cnt * d2 - d1 * d1, d |-> cnt * cnt]],
     dark_clip |-> [n |-> dark, d |-> cnt],
     bright_clip |-> [n |-> bright, d |-> cnt]]

\* the sums of the deviations of the lumas from the whole part of their mean
Deviations(img_rgb, cnt, s1, dark, bright) ==
    LightingMetrics(cnt, s1,
                    SumLuma(img_rgb, Lumas(img_rgb), s1 \div cnt, 1),
                    SumLuma(img_rgb, Lumas(img_rgb), s1 \div cnt, 2),
                    dark, bright)

\* _lighting_metrics: gray.mean(), gray.std() (as the variance it is the root
\* of) and the two clip fractions, each a rational [n, d]
_lighting_metrics(img_rgb) ==
    Deviations(img_rgb, img_rgb.shape[1] * img_rgb.shape[2],
               SumLuma(img_rgb, Lumas(img_rgb), 0, 1),
               Cardinality({p \in DOMAIN img_rgb.px : Luma(img_rgb.px[p]) <= DarkLuma}),
               Cardinality({p \in DOMAIN img_rgb.px : Luma(img_rgb.px[p]) >= BrightLuma}))

\* round(sqrt(n / d)), the value the format {std:.0f} prints
RoundSqrt(n, d) ==
    LET q == 4 * (n \div d) + (4 * (n % d)) \div d
    IN  CHOOSE s \in 0 .. 255 :
            /\ (s = 0 \/ (2 * s - 1) * (2 * s - 1) <= q)
            /\ q < (2 * s + 1) * (2 * s + 1)

\* _lm_xy: (x, y) of a landmark, None for None
_lm_xy(p) == IF p = None THEN None ELSE [x |-> p.x, y |-> p.y]

(***************************************************************************)
(* passport_photo.py: the landmark detector.  The face mesh is the         *)
(* external collaborator; mesh is what FaceMesh.process does on the image: *)
(* it crashes, finds no face, or yields the three landmarks in pixels.     *)
(***************************************************************************)
Point(x, y) == [x |-> x, y |-> y]

MeshFace(nose, forehead, chin) ==
    [kind |-> "face", nose |-> nose, forehead |-> forehead, chin |-> chin]

MeshNoFace == [kind |-> "noface"]

MeshCrash == [kind |-> "crash"]

Raised(error) == [raised |-> TRUE, error |-> error]

Returned(value) == [raised |-> FALSE, value |-> value]

\* mutant of _detect_face_landmarks: the chin-below-forehead check is missing
_detect_face_landmarks_unchecked(mesh) ==
    IF mesh.kind = "crash" THEN Raised("Exception: face mesh failed")
    ELSE IF mesh.kind = "noface" THEN Raised("RuntimeError: No face detected")
    ELSE Returned([nose |-> mesh.nose, forehead |-> mesh.forehead, chin |-> mesh.chin])

\* _detect_face_landmarks: raises when there is no face or the chin is not
\* below the forehead, else returns (nose_tip, forehead, chin)
_detect_face_landmarks(mesh) ==
    IF mesh.kind = "crash" THEN Raised("Exception: face mesh failed")
    ELSE IF mesh.kind = "noface" THEN Raised("RuntimeError: No face detected")
    ELSE IF mesh.chin.y <= mesh.forehead.y
      THEN Raised("RuntimeError: Face landmarks looked inconsistent")
    ELSE Returned([nose |-> mesh.nose, forehead |-> mesh.forehead, chin |-> mesh.chin])

\* _get_landmarks: None when the detector was not imported or raises
_get_landmarks(available, mesh) ==
    IF ~available THEN None
    ELSE LET r == _detect_face_landmarks(mesh)
         IN  IF r.raised THEN None ELSE r.value

\* how often _get_landmarks invokes the detector
DetectorInvocations(available) == IF available THEN 1 ELSE 0

(***************************************************************************)
(* validator.py: the five rules.  A message is the format string's text,   *)
(* the numbers formatted into it (rounded as the format rounds them) and   *)
(* the hint appended when the rule fails.                                  *)
(***************************************************************************)
RuleResult(rule_id, passed, message, metrics) ==
    [rule_id |-> rule_id, passed |-> passed, message |-> message, metrics |-> metrics]

Message(text, args, hint) == [text |-> text, args |-> args, hint |-> hint]

\* Rule: Size
SizeRule(processed_rgb, params) ==
    LET w == processed_rgb.w
        h == processed_rgb.h
        size_ok == (w = params.size) /\ (h = params.size)
    IN  RuleResult("Size", size_ok,
                   Message("{w}x{h} pixels (expected {size}x{size}).",
                           <<w, h, params.size, params.size>>, ""),
                   [width |-> w, height |-> h, expected |-> params.size])

\* mutant of HeadRatioRule: the two ends of the range are excluded
HeadRatioRuleExclusive(forehead_xy, chin_xy, H) ==
    IF forehead_xy = None \/ chin_xy = None
      THEN RuleResult("Head ratio", FALSE,
                      Message("Could not detect face landmarks (needed for head size check).",
                              <<>>, ""),
                      [head_ratio |-> None, range |-> <<HeadRatioLo, HeadRatioHi>>])
      ELSE LET head_px == Max(0, chin_xy.y - forehead_xy.y)
               ratio == IF H # 0 THEN [n |-> head_px, d |-> H] ELSE [n |-> 0, d |-> 1]
               ok == /\ 100 * ratio.n > HeadRatioLo * ratio.d
                     /\ 100 * ratio.n < HeadRatioHi * ratio.d
           IN  RuleResult("Head ratio", ok,
                          Message("{ratio:.2f} of image height (target 0.50-0.69).",
                                  <<PyRound(100 * ratio.n, ratio.d)>>,
                                  IF ok THEN ""
                                  ELSE " Adjust distance to camera or re-take with head sized appropriately."),
                          [head_ratio |-> ratio, head_px |-> head_px,
                           range |-> <<HeadRatioLo, HeadRatioHi>>])

\* Rule: Head ratio
HeadRatioRule(forehead_xy, chin_xy, H) ==
    IF forehead_xy = None \/ chin_xy = None
      THEN RuleResult("Head ratio", FALSE,
                      Message("Could not detect face landmarks (needed for head size check).",
                              <<>>, ""),
                      [head_ratio |-> None, range |-> <<HeadRatioLo, HeadRatioHi>>])
      ELSE LET head_px == Max(0, chin_xy.y - forehead_xy.y)
               ratio == IF H # 0 THEN [n |-> head_px, d |-> H] ELSE [n |-> 0, d |-> 1]
               ok == /\ 100 * ratio.n >= HeadRatioLo * ratio.d
                     /\ 100 * ratio.n <= HeadRatioHi * ratio.d
           IN  RuleResult("Head ratio", ok,
                          Message("{ratio:.2f} of image height (target 0.50-0.69).",
                                  <<PyRound(100 * ratio.n, ratio.d)>>,
                                  IF ok THEN ""
                                  ELSE " Adjust distance to camera or re-take with head sized appropriately."),
                          [head_ratio |-> ratio, head_px |-> head_px,
                           range |-> <<HeadRatioLo, HeadRatioHi>>])

\* mutant of CenteringRule: a missing nose is taken to be at the centre
CenteringRuleDefaultsToCentre(nose_xy, W) ==
    LET center_x == [n |-> W, d |-> 2]
        dx == IF nose_xy = None THEN [n |-> 0, d |-> 2]
              ELSE [n |-> 2 * nose_xy.x - W, d |-> 2]
        tol == [n |-> CenterTolPct * W, d |-> 100]
        ok == Abs(dx.n) * tol.d <= tol.n * dx.d
    IN  RuleResult("Centering", ok,
                   Message("Nose offset {dx:+.0f}px (tolerance +-{tol:.0f}px).",
                           <<PyRound(dx.n, dx.d), PyRound(tol.n, tol.d)>>,
                           IF ok THEN ""
                           ELSE " Re-center your face (keep nose near the middle)."),
                   [nose_x |-> [n |-> dx.n + W, d |-> 2], center_x |-> center_x,
                    dx_px |-> dx, tolerance_px |-> tol])

\* Rule: Centering (nose x near image center)
CenteringRule(nose_xy, W) ==
    IF nose_xy = None
      THEN RuleResult("Centering", FALSE,
                      Message("Could not detect face landmarks (needed for centering check).",
                              <<>>, ""),
                      [nose_x |-> None, center_x |-> [n |-> W, d |-> 2]])
      ELSE LET center_x == [n |-> W, d |-> 2]
               dx == [n |-> 2 * nose_xy.x - W, d |-> 2]
               tol == [n |-> CenterTolPct * W, d |-> 100]
               ok == Abs(dx.n) * tol.d <= tol.n * dx.d
           IN  RuleResult("Centering", ok,
                          Message("Nose offset {dx:+.0f}px (tolerance +-{tol:.0f}px).",
                                  <<PyRound(dx.n, dx.d), PyRound(tol.n, tol.d)>>,
                                  IF ok THEN ""
                                  ELSE " Re-center your face (keep nose near the middle)."),
                          [nose_x |-> [n |-> nose_xy.x, d |-> 1], center_x |-> center_x,
                           dx_px |-> dx, tolerance_px |-> tol])

\* margin = max(10, int(0.05 * min(H, W)))
BorderMargin(H, W) == Max(MarginMin, (MarginPct * Min(H, W)) \div 100)

\* the Background whiteness result for the measured ratio
BackgroundResult(white_ratio, margin, bg_ok) ==
    RuleResult("Background whiteness", bg_ok,
               Message("Near-white border pixels: {white_ratio*100:.1f}% (target >= 95%).",
                       <<PyRound(1000 * white_ratio.n, white_ratio.d)>>,
                       IF bg_ok THEN "" ELSE " Background may not be white enough."),
               [white_ratio |-> white_ratio, margin_px |-> margin, threshold |-> WhiteThr])

\* bg_ok = white_ratio >= 0.95
BackgroundOk(white_ratio) == 100 * white_ratio.n >= WhiteTargetPct * white_ratio.d

BackgroundFor(white_ratio, margin) ==
    BackgroundResult(white_ratio, margin, BackgroundOk(white_ratio))

\* Rule: Background whiteness (border pixels)
BackgroundRule(img_rgb) ==
    BackgroundFor(
        _near_white_ratio_border(img_rgb, BorderMargin(img_rgb.shape[1], img_rgb.shape[2]),
                                 WhiteThr),
        BorderMargin(img_rgb.shape[1], img_rgb.shape[2]))

\* light_ok = ok_mean and ok_clip and ok_std
\* mutant of LightingOk: the standard deviation is measured but not judged
LightingOkWithoutStd(mean, var, dark_clip, bright_clip) ==
    LET ok_mean == MeanLo * mean.d <= mean.n /\ mean.n <= MeanHi * mean.d
        ok_clip == /\ 100 * dark_clip.n <= ClipMaxPct * dark_clip.d
                   /\ 100 * bright_clip.n <= ClipMaxPct * bright_clip.d
    IN  ok_mean /\ ok_clip

LightingOk(mean, var, dark_clip, bright_clip) ==
    LET ok_mean == MeanLo * mean.d <= mean.n /\ mean.n <= MeanHi * mean.d
        ok_clip == /\ 100 * dark_clip.n <= ClipMaxPct * dark_clip.d
                   /\ 100 * bright_clip.n <= ClipMaxPct * bright_clip.d
        ok_std == StdLo * StdLo * var.d <= var.n /\ var.n <= StdHi * StdHi * var.d
    IN  ok_mean /\ ok_clip /\ ok_std

\* the Lighting result for the measured metrics
LightingResult(lmets, light_ok) ==
    RuleResult("Lighting", light_ok,
               Message("Mean {mean:.0f}, Std {std:.0f}, Clip(D/B) {dark:.1f}%/{bright:.1f}%.",
                       <<PyRound(lmets.luma_mean.n, lmets.luma_mean.d),
                         RoundSqrt(lmets.luma_std.sqrt_of.n, lmets.luma_std.sqrt_of.d),
                         PyRound(1000 * lmets.dark_clip.n, lmets.dark_clip.d),
                         PyRound(1000 * lmets.bright_clip.n, lmets.bright_clip.d)>>,
                       IF light_ok THEN ""
                       ELSE " Avoid harsh shadows/backlight; use even front lighting."),
               lmets)

LightingFor(lmets) ==
    LightingResult(lmets, LightingOk(lmets.luma_mean, lmets.luma_std.sqrt_of,
                                     lmets.dark_clip, lmets.bright_clip))

\* Rule: Lighting heuristics
LightingRule(img_rgb) == LightingFor(_lighting_metrics(img_rgb))

\* mutant of AllPassed: any() instead of all()
AnyPassed(results) == \E i \in 1 .. Len(results) : results[i].passed

\* all(r.passed for r in results)
AllPassed(results) == \A i \in 1 .. Len(results) : results[i].passed

\* mutant of ValidationReport: the failed results are listed first
ValidationReportFailuresFirst(results) ==
    LET failed(r) == ~r.passed
        passed(r) == r.passed
    IN  [passed |-> \A i \in 1 .. Len(results) : results[i].passed,
         results |-> SelectSeq(results, failed) \o SelectSeq(results, passed)]

\* ValidationReport(passed=passed, results=results)
ValidationReport(results) == [passed |-> AllPassed(results), results |-> results]

(***************************************************************************)
(* passport_photo.py: image helpers of the pipeline.                       *)
(***************************************************************************)
Uniform(mode, w, h, colour) ==
    [kind |-> "uniform", mode |-> mode, w |-> w, h |-> h, colour |-> colour]

\* (r, g, b) <-> (b, g, r)
SwapRB(p) == <<p[3], p[2], p[1]>>

RECURSIVE SwapChannels(_, _)
\* cv2.cvtColor(arr, COLOR_RGB2BGR) and COLOR_BGR2RGB: every pixel swapped
SwapChannels(img, mode) ==
    IF img = None THEN None
    ELSE IF img.kind = "uniform"
      THEN [img EXCEPT !.mode = mode, !.colour = SwapRB(img.colour)]
    ELSE IF img.kind = "pixels"
      THEN [img EXCEPT !.mode = mode, !.px = [p \in DOMAIN img.px |-> SwapRB(img.px[p])]]
    ELSE [img EXCEPT !.mode = mode, !.pad = SwapRB(img.pad),
                     !.src = SwapChannels(img.src, mode)]

\* _pil_to_bgr_np
_pil_to_bgr_np(img) == SwapChannels(img, "BGR")

\* _bgr_np_to_pil
_bgr_np_to_pil(img_bgr) == SwapChannels(img_bgr, "RGB")

\* a Python slice [a:b] of an axis of length n: <<start, length>>
PySlice(a, b, n) ==
    LET start == IF a < 0 THEN Max(a + n, 0) ELSE Min(a, n)
        stop == IF b < 0 THEN Max(b + n, 0) ELSE Min(b, n)
    IN  <<start, Max(stop - start, 0)>>

RECURSIVE PixelAt(_, _, _)
\* the pixel of an image at column x, row y
PixelAt(img, x, y) ==
    IF img.kind = "pixels" THEN img.px[<<x, y>>]
    ELSE IF img.kind = "uniform" THEN img.colour
    ELSE IF img.kind = "composite"
      THEN (IF img.alpha = "opaque" THEN PixelAt(img.base, x, y) ELSE White)
    ELSE IF /\ img.patch # None
            /\ img.patch.dx <= x /\ x < img.patch.dx + img.patch.dw
            /\ img.patch.dy <= y /\ y < img.patch.dy + img.patch.dh
      THEN PixelAt(img.src,
                   img.patch.sx + (IF img.patch.sw = 1 THEN 0 ELSE x - img.patch.dx),
                   img.patch.sy + (IF img.patch.sh = 1 THEN 0 ELSE y - img.patch.dy))
    ELSE img.pad

\* _resize_bgr: raises for scale <= 0, else cv2.resize to the rounded size;
\* an image of one colour keeps its colour under the interpolation
_resize_bgr(img_bgr, scale) ==
    IF scale.n <= 0 THEN Raised("ValueError: Scale must be > 0")
    ELSE LET new_w == Max(1, PyRound(img_bgr.w * scale.n, scale.d))
             new_h == Max(1, PyRound(img_bgr.h * scale.n, scale.d))
         IN  Returned([img_bgr EXCEPT !.w = new_w, !.h = new_h])

\* left, top, right, bottom of the requested square:
\* left = int(round(cx - size / 2.0)), right = left + size
CropWindow(center_xy, size) ==
    LET left == PyRound(2 * center_xy.x.n - size * center_xy.x.d, 2 * center_xy.x.d)
        top == PyRound(2 * center_xy.y.n - size * center_xy.y.d, 2 * center_xy.y.d)
    IN  [left |-> left, top |-> top, right |-> left + size, bottom |-> top + size]

\* mutant of SourceRegion: the left and top of the window are not clamped to
\* the image, so a negative index counts from the far edge
SourceRegionUnclamped(win, w, h) ==
    [src_left |-> win.left, src_top |-> win.top,
     src_right |-> Min(w, win.right), src_bottom |-> Min(h, win.bottom)]

\* the source region: the intersection of the window with the image
SourceRegion(win, w, h) ==
    [src_left |-> Max(0, win.left), src_top |-> Max(0, win.top),
     src_right |-> Min(w, win.right), src_bottom |-> Min(h, win.bottom)]

\* mutant of OutOfBounds: only the horizontal test
OutOfBoundsHorizontally(r) == r.src_left >= r.src_right

\* if src_left >= src_right or src_top >= src_bottom: entire crop out of bounds
OutOfBounds(r) == r.src_left >= r.src_right \/ r.src_top >= r.src_bottom

\* np.full((size, size, 3), pad_color_bgr, dtype=np.uint8)
NewCanvas(size, pad_color_bgr, mode) ==
    [kind |-> "canvas", mode |-> mode, w |-> size, h |-> size, pad |-> pad_color_bgr,
     patch |-> None, src |-> None]

\* out[dst_top:dst_bottom, dst_left:dst_right] = img[src_top:src_bottom, src_left:src_right]
\* numpy takes both slices, and raises unless the source slice has the shape
\* of the destination slice or broadcasts to it
AssignPatch(out, img_bgr, win, r) ==
    LET dst_left == r.src_left - win.left
        dst_top == r.src_top - win.top
        dst_right == dst_left + (r.src_right - r.src_left)
        dst_bottom == dst_top + (r.src_bottom - r.src_top)
        dcols == PySlice(dst_left, dst_right, out.w)
        drows == PySlice(dst_top, dst_bottom, out.h)
        scols == PySlice(r.src_left, r.src_right, img_bgr.w)
        srows == PySlice(r.src_top, r.src_bottom, img_bgr.h)
    IN  IF (scols[2] = dcols[2] \/ scols[2] = 1) /\ (srows[2] = drows[2] \/ srows[2] = 1)
          THEN Returned([out EXCEPT
                   !.patch = [dx |-> dcols[1], dy |-> drows[1], dw |-> dcols[2],
                              dh |-> drows[2], sx |-> scols[1], sy |-> srows[1],
                              sw |-> scols[2], sh |-> srows[2]],
                   !.src = img_bgr])
          ELSE Raised("ValueError: could not broadcast input array")

\* mutant of _crop_square_with_padding: the source region is returned as it
\* is cut, without a canvas to pad it
_crop_square_without_padding(img_bgr, center_xy, size, pad_color_bgr) ==
    LET win == CropWindow(center_xy, size)
        r == SourceRegion(win, img_bgr.w, img_bgr.h)
    IN  IF OutOfBounds(r) THEN Returned(NewCanvas(size, pad_color_bgr, img_bgr.mode))
        ELSE Returned([kind |-> "canvas", mode |-> img_bgr.mode,
                       w |-> r.src_right - r.src_left, h |-> r.src_bottom - r.src_top,
                       pad |-> pad_color_bgr,
                       patch |-> [dx |-> 0, dy |-> 0, dw |-> r.src_right - r.src_left,
                                  dh |-> r.src_bottom - r.src_top, sx |-> r.src_left,
                                  sy |-> r.src_top, sw |-> r.src_right - r.src_left,
                                  sh |-> r.src_bottom - r.src_top],
                       src |-> img_bgr])

\* _crop_square_with_padding
_crop_square_with_padding(img_bgr, center_xy, size, pad_color_bgr) ==
    LET win == CropWindow(center_xy, size)
        out == NewCanvas(size, pad_color_bgr, img_bgr.mode)
        r == SourceRegion(win, img_bgr.w, img_bgr.h)
    IN  IF OutOfBounds(r) THEN Returned(out)
        ELSE AssignPatch(out, img_bgr, win, r)

\* what rembg can do: it cannot be imported, remove() raises, remove() returns
\* bytes (io is not imported by passport_photo.py, so io.BytesIO raises
\* NameError), or remove() returns a cutout of the size of its input that
\* keeps everything (opaque) or nothing (clear)
RembgOutcomes == {"absent", "raises", "bytes", "opaque", "clear"}

\* mutant of _white_background_with_rembg: no except clause around remove()
_white_background_with_rembg_uncaught(pil_rgb, rembg) ==
    IF rembg = "absent" THEN Returned(pil_rgb)
    ELSE IF rembg = "raises" THEN Raised("Exception: rembg failed")
    ELSE IF rembg = "bytes" THEN Raised("NameError: name 'io' is not defined")
    ELSE Returned([kind |-> "composite", mode |-> "RGB", w |-> pil_rgb.w, h |-> pil_rgb.h,
                   base |-> pil_rgb, alpha |-> rembg])

\* _white_background_with_rembg: the composite of the cutout on white, or
\* pil_rgb itself when rembg is missing or anything in the try block raises
_white_background_with_rembg(pil_rgb, rembg) ==
    IF rembg = "absent" THEN Returned(pil_rgb)
    ELSE IF rembg \in {"raises", "bytes"} THEN Returned(pil_rgb)
    ELSE Returned([kind |-> "composite", mode |-> "RGB", w |-> pil_rgb.w, h |-> pil_rgb.h,
                   base |-> pil_rgb, alpha |-> rembg])

\* how often _white_background_with_rembg calls rembg.remove
RemoveInvocations(rembg) == IF rembg = "absent" THEN 0 ELSE 1

\* an input file: unreadable, or an image of one colour with its mode and
\* its EXIF orientation (1 upright, 6 rotated by a quarter turn)
ImageFile(mode, orientation, w, h, colour) ==
    [readable |-> TRUE, mode |-> mode, orientation |-> orientation, w |-> w, h |-> h,
     colour |-> colour]

Unreadable == [readable |-> FALSE]

\* _load_image_rgb: Image.open, ImageOps.exif_transpose, convert("RGB")
_load_image_rgb(file) ==
    IF ~file.readable THEN Raised("OSError: cannot open image")
    ELSE LET turned == file.orientation = 6
             rgb == IF file.mode = "RGB" THEN file.colour
                    ELSE <<file.colour[1], file.colour[1], file.colour[1]>>
         IN  Returned(Uniform("RGB", IF turned THEN file.h ELSE file.w,
                              IF turned THEN file.w ELSE file.h, rgb))

\* mutant of ParamsError: the upper bound of head_ratio is not checked
ParamsErrorLowerBoundOnly(size, head_ratio) ==
    IF size < MinSize THEN "ValueError: size too small"
    ELSE IF ~(MinHeadRatio <= head_ratio)
      THEN "ValueError: head_ratio should be between 0.50 and 0.69"
    ELSE ""

\* the two checks that open process_passport_photo: the error raised, or ""
ParamsError(size, head_ratio) ==
    IF size < MinSize THEN "ValueError: size too small"
    ELSE IF ~(MinHeadRatio <= head_ratio /\ head_ratio <= MaxHeadRatio)
      THEN "ValueError: head_ratio should be between 0.50 and 0.69"
    ELSE ""

\* mutant of ScaleFor: the quotient the wrong way round
ScaleForInverted(head_ratio, size, head_height_px) ==
    IF head_height_px > 0
      THEN [n |-> 100 * head_height_px, d |-> head_ratio * size]
      ELSE [n |-> 0 - 100 * head_height_px, d |-> 0 - head_ratio * size]

\* scale = target_head_px / float(head_height_px), with a positive denominator
ScaleFor(head_ratio, size, head_height_px) ==
    IF head_height_px > 0
      THEN [n |-> head_ratio * size, d |-> 100 * head_height_px]
      ELSE [n |-> 0 - head_ratio * size, d |-> 0 - 100 * head_height_px]

(***************************************************************************)
(* The scaling of process_passport_photo and the Head ratio and Centering  *)
(* tests of validate_passport_photo in float arithmetic, for landmarks     *)
(* that are floats.  head_ratio is in hundredths, as everywhere.           *)
(***************************************************************************)
\* target_head_px = head_ratio * float(size)
\* scale = target_head_px / float(head_height_px), for head_height_px > 0
ScaleForFloat(head_ratio, size, head_height_px) ==
    FlDivInt(FlMulInt(FlHundredths(head_ratio), size), head_height_px)

\* int(round(c * scale - size / 2.0)): the left (top) of the crop for the
\* nose at column (row) c of the input
CropOffsetFloat(c, sc, size) ==
    PyRoundFloat(FlSub(FlMulInt(sc, c), FlDivInt(FlOfInt(size), 2)))

\* head_px = max(0.0, float(chin_y - forehead_y)); ratio = head_px / float(H)
HeadRatioFloat(forehead_y, chin_y, H) ==
    IF FlSub(chin_y, forehead_y).neg THEN FlZero
    ELSE FlDivInt(FlSub(chin_y, forehead_y), H)

\* ok = (ratio >= lo) and (ratio <= hi)
HeadRatioOkFloat(ratio) ==
    FlLe(FlHundredths(HeadRatioLo), ratio) /\ FlLe(ratio, FlHundredths(HeadRatioHi))

\* dx = float(nose_x - W / 2.0); tol = 0.08 * W; ok = abs(dx) <= tol
CenteringOkFloat(nose_x, W) ==
    FlLe(FlAbs(FlSub(nose_x, FlDivInt(FlOfInt(W), 2))),
         FlMulInt(FlHundredths(CenterTolPct), W))

\* out_pil.save: JPEG with quality 95 for .jpg and .jpeg, else by extension
SavedFile(out_pil, ext) ==
    [format |-> IF ext \in {"jpg", "jpeg"} THEN "JPEG" ELSE ext,
     quality |-> IF ext \in {"jpg", "jpeg"} THEN 95 ELSE 0,
     image |-> out_pil]

(***************************************************************************)
(* State.                                                                  *)
(***************************************************************************)
VARIABLES
    \* validate_passport_photo: position, arguments and locals
    vpc, processed_rgb, vparams, results, img_rgb, lm, nose_xy, forehead_xy, chin_xy,
    \* the report returned, the way the detection attempt of this call ended,
    \* and the numbers of calls of _get_landmarks and of the detector in it
    report, detection, getLandmarksCalls, detectorCalls,
    \* the Size, Background whiteness and Lighting results of the previous
    \* call on the same image and params and whether that call found the
    \* landmarks (None before the second call)
    prior,
    \* process_passport_photo: position, arguments (size, head_ratio in
    \* hundredths, remove_background, the extension of output_path), locals, and
    \* what the face mesh did on the image
    npc, nargs, pil, nmesh, nlm, head_height_px, scale, bgr_rs, nose_rs, cropped, out_pil,
    \* the file written, the exception that left the call, what rembg did, and
    \* the numbers of calls made: load, detect, resize, crop, background, remove, save
    saved, nraised, rembgDid, calls,
    \* _crop_square_with_padding called on its own: position, arguments, result
    cpc, cimg, ccenter, csize, cpad, cout,
    \* a report in the hands of the GUI: the report object, the texts
    \* format_report_text gave for it, the rows of the report view, and the
    \* last assignment to a field that was tried with its outcome
    rreport, texts, tree, assigned,
    \* the session: the AppState (its params a reference), the
    \* ProcessingParams objects alive, the params each worker in flight
    \* captured, the last assignment to a field of a ProcessingParams that was
    \* tried, the preview file of TempPaths, and what the last operation on
    \* the AppState or the preview file was
    astate, heap, snaps, passigned, preview, alast,
    \* the window: the AppState (its fields holding which file an image came
    \* from, its params a value), which buttons are enabled, whether the
    \* progress bar runs, the worker threads running, the completion
    \* callbacks handed to the event loop, what the preview file holds, the
    \* number of workers started so far, and the last handler that ran
    gstate, buttons, busy, running, posted, gfile, runs, glast

vvars == <<vpc, processed_rgb, vparams, results, img_rgb, lm, nose_xy, forehead_xy,
           chin_xy, report, detection, getLandmarksCalls, detectorCalls, prior>>

nvars == <<npc, nargs, pil, nmesh, nlm, head_height_px, scale, bgr_rs, nose_rs, cropped, out_pil,
           saved, nraised, rembgDid, calls>>

cvars == <<cpc, cimg, ccenter, csize, cpad, cout>>

rvars == <<rreport, texts, tree, assigned>>

avars == <<astate, heap, snaps, passigned, preview, alast>>

gvars == <<gstate, buttons, busy, running, posted, gfile, runs, glast>>

vars == <<vvars, nvars, cvars, rvars, avars, gvars>>

(***************************************************************************)
(* Inputs of validate_passport_photo.                                      *)
(***************************************************************************)
ProcessingParams(size, head_ratio, remove_background) ==
    [size |-> size, head_ratio |-> head_ratio, remove_background |-> remove_background]

\* widths and heights: every pair up to MaxDim that differs by at most one
ValidateDims == {d \in (1 .. MaxDim) \X (1 .. MaxDim) : Abs(d[1] - d[2]) <= 1}

\* a side for which the margin of 10 pixels is less than half the side
LargeDim == 2 * MarginMin + 2

\* 30 pixels of the border band of a LargeDim image that lie in one strip
\* only: 20 in the middle of the top strip, 10 in the middle of the bottom
EdgeBlock ==
    {p \in Positions(LargeDim, LargeDim) :
        /\ p[1] \in {MarginMin, MarginMin + 1}
        /\ p[2] < MarginMin \/ p[2] >= LargeDim - MarginMin \div 2}

\* RGB images of one colour, and of one colour with one pixel of another;
\* one grey-scale and one RGBA image
ValidateImages ==
    UNION {
        {Painted("RGB", d[1], d[2], bg, {}, bg) : bg \in {White, NearWhite, Cream, Grey, Black}}
        \cup {Painted("RGB", d[1], d[2], White, {p}, Black) : p \in Positions(d[1], d[2])}
        \cup {Painted("RGB", d[1], d[2], Grey, {p}, Cream) : p \in Positions(d[1], d[2])}
        : d \in ValidateDims }
    \cup {Painted("L", MaxDim, MaxDim, <<160>>, {<<0, 0>>}, <<255>>),
          Painted("RGBA", MaxDim, MaxDim, <<255, 255, 255, 0>>, {}, <<255, 255, 255, 0>>)}
    \cup {Painted("RGB", LargeDim, LargeDim, bg, {}, bg) : bg \in {White, Grey}}
    \cup {Painted("RGB", LargeDim, LargeDim, White, EdgeBlock, Black)}
    \cup {Painted("RGB", MaxDim, MaxDim, c[1], {<<0, 0>>}, c[2]) :
              c \in {<<Grey, Black>>, <<Grey, White>>, <<Cream, Grey>>}}

ValidateParams ==
    {ProcessingParams(s, DefaultHeadRatio, TRUE) :
        s \in {MaxDim - 1, MaxDim, LargeDim, DefaultSize}}

\* the faces of the test scenario (nose (300, 250), forehead (300, 100), chin
\* (300, 430) on 600 x 600) brought to a LargeDim image: the nose on the
\* centre line or two pixels off it, the head half the height or more than
\* 0.69 of it
ScenarioMeshes ==
    {MeshFace(Point(nx, LargeDim \div 2 - 2), Point(LargeDim \div 2, 4),
              Point(LargeDim \div 2, cy)) :
        nx \in {LargeDim \div 2, LargeDim \div 2 + 2},
        cy \in {4 + LargeDim \div 2, LargeDim - 2}}

\* what the face mesh can do on the image: the landmarks lie on the pixel grid
ValidateMeshes ==
    {MeshCrash, MeshNoFace}
    \cup {MeshFace(Point(nx, fy), Point(nx, fy), Point(nx, cy)) :
             nx \in 0 .. MaxCoord, fy \in 0 .. 1, cy \in 0 .. MaxCoord}
    \cup ScenarioMeshes

DetectionKind(available, mesh) ==
    IF ~available THEN "absent"
    ELSE IF mesh.kind # "face" THEN mesh.kind
    ELSE IF _detect_face_landmarks(mesh).raised THEN "inconsistent"
    ELSE "landmarks"

(***************************************************************************)
(* validate_passport_photo, statement by statement.                        *)
(***************************************************************************)
VInit ==
    /\ vpc = "size"
    /\ processed_rgb \in ValidateImages
    /\ vparams \in ValidateParams
    /\ results = <<>>
    /\ img_rgb = None
    /\ lm = None
    /\ nose_xy = None
    /\ forehead_xy = None
    /\ chin_xy = None
    /\ report = None
    /\ detection = "none"
    /\ getLandmarksCalls = 0
    /\ detectorCalls = 0
    /\ prior = None

\* results.append(RuleResult(rule_id="Size", ...))
RuleSize ==
    /\ vpc = "size"
    /\ results' = Append(results, SizeRule(processed_rgb, vparams))
    /\ vpc' = "convert"
    /\ UNCHANGED <<processed_rgb, vparams, img_rgb, lm, nose_xy, forehead_xy, chin_xy,
                   report, detection, getLandmarksCalls, detectorCalls, prior>>
    /\ UNCHANGED <<nvars, cvars, rvars, avars, gvars>>

\* img_rgb = _pil_to_np_rgb(processed_rgb)
ConvertToArray ==
    /\ vpc = "convert"
    /\ img_rgb' = _pil_to_np_rgb(processed_rgb)
    /\ vpc' = "landmarks"
    /\ UNCHANGED <<processed_rgb, vparams, results, lm, nose_xy, forehead_xy, chin_xy,
                   report, detection, getLandmarksCalls, detectorCalls, prior>>
    /\ UNCHANGED <<nvars, cvars, rvars, avars, gvars>>

\* lm = _get_landmarks(processed_rgb), then the three _lm_xy; the detector is
\* imported or not, and the face mesh does one of the things it can do
GetLandmarks ==
    /\ vpc = "landmarks"
    /\ \E available \in BOOLEAN, mesh \in ValidateMeshes :
         LET got == _get_landmarks(available, mesh)
         IN  /\ lm' = got
             /\ nose_xy' = IF got # None THEN _lm_xy(got.nose) ELSE None
             /\ forehead_xy' = IF got # None THEN _lm_xy(got.forehead) ELSE None
             /\ chin_xy' = IF got # None THEN _lm_xy(got.chin) ELSE None
             /\ detection' = DetectionKind(available, mesh)
             /\ detectorCalls' = detectorCalls + DetectorInvocations(available)
    /\ getLandmarksCalls' = getLandmarksCalls + 1
    /\ vpc' = "head_ratio"
    /\ UNCHANGED <<processed_rgb, vparams, results, img_rgb, report, prior>>
    /\ UNCHANGED <<nvars, cvars, rvars, avars, gvars>>

RuleHeadRatio ==
    /\ vpc = "head_ratio"
    /\ results' = Append(results, HeadRatioRule(forehead_xy, chin_xy, img_rgb.shape[1]))
    /\ vpc' = "centering"
    /\ UNCHANGED <<processed_rgb, vparams, img_rgb, lm, nose_xy, forehead_xy, chin_xy,
                   report, detection, getLandmarksCalls, detectorCalls, prior>>
    /\ UNCHANGED <<nvars, cvars, rvars, avars, gvars>>

RuleCentering ==
    /\ vpc = "centering"
    /\ results' = Append(results, CenteringRule(nose_xy, img_rgb.shape[2]))
    /\ vpc' = "background"
    /\ UNCHANGED <<processed_rgb, vparams, img_rgb, lm, nose_xy, forehead_xy, chin_xy,
                   report, detection, getLandmarksCalls, detectorCalls, prior>>
    /\ UNCHANGED <<nvars, cvars, rvars, avars, gvars>>

\* mutant of RuleBackground: without landmarks the border is not measured
RuleBackgroundNeedsFace ==
    /\ vpc = "background"
    /\ results' = Append(results,
                         IF lm = None
                           THEN RuleResult("Background whiteness", FALSE,
                                           Message("Could not detect face landmarks.", <<>>, ""),
                                           [white_ratio |-> None])
                           ELSE BackgroundRule(img_rgb))
    /\ vpc' = "lighting"
    /\ UNCHANGED <<processed_rgb, vparams, img_rgb, lm, nose_xy, forehead_xy, chin_xy,
                   report, detection, getLandmarksCalls, detectorCalls, prior>>
    /\ UNCHANGED <<nvars, cvars, rvars, avars, gvars>>

\* Rule: Background whiteness, appended
RuleBackground ==
    /\ vpc = "background"
    /\ results' = Append(results, BackgroundRule(img_rgb))
    /\ vpc' = "lighting"
    /\ UNCHANGED <<processed_rgb, vparams, img_rgb, lm, nose_xy, forehead_xy, chin_xy,
                   report, detection, getLandmarksCalls, detectorCalls, prior>>
    /\ UNCHANGED <<nvars, cvars, rvars, avars, gvars>>

RuleLighting ==
    /\ vpc = "lighting"
    /\ results' = Append(results, LightingRule(img_rgb))
    /\ vpc' = "aggregate"
    /\ UNCHANGED <<processed_rgb, vparams, img_rgb, lm, nose_xy, forehead_xy, chin_xy,
                   report, detection, getLandmarksCalls, detectorCalls, prior>>
    /\ UNCHANGED <<nvars, cvars, rvars, avars, gvars>>

\* passed = all(...); return ValidationReport(passed=passed, results=results)
ReturnReport ==
    /\ vpc = "aggregate"
    /\ report' = ValidationReport(results)
    /\ vpc' = "returned"
    /\ UNCHANGED <<processed_rgb, vparams, results, img_rgb, lm, nose_xy, forehead_xy,
                   chin_xy, detection, getLandmarksCalls, detectorCalls, prior>>
    /\ UNCHANGED <<nvars, cvars, rvars, avars, gvars>>

\* the results of a report that do not use the landmarks
PixelResults(rep) == <<rep.results[1], rep.results[4], rep.results[5]>>

\* the caller validates the same image with the same params once more
\* (on_validate pressed again): a fresh call, the previous report remembered
ValidateAgain ==
    /\ vpc = "returned"
    /\ prior = None
    /\ prior' = [pixel |-> PixelResults(report), found |-> lm # None]
    /\ vpc' = "size"
    /\ results' = <<>>
    /\ img_rgb' = None
    /\ lm' = None
    /\ nose_xy' = None
    /\ forehead_xy' = None
    /\ chin_xy' = None
    /\ report' = None
    /\ detection' = "none"
    /\ getLandmarksCalls' = 0
    /\ detectorCalls' = 0
    /\ UNCHANGED <<processed_rgb, vparams>>
    /\ UNCHANGED <<nvars, cvars, rvars, avars, gvars>>

\* no call of validate_passport_photo is under way
VIdle ==
    /\ vpc = "idle"
    /\ processed_rgb = None
    /\ vparams = None
    /\ results = <<>>
    /\ img_rgb = None
    /\ lm = None
    /\ nose_xy = None
    /\ forehead_xy = None
    /\ chin_xy = None
    /\ report = None
    /\ detection = "none"
    /\ getLandmarksCalls = 0
    /\ detectorCalls = 0
    /\ prior = None

VNext ==
    \/ RuleSize
    \/ ConvertToArray
    \/ GetLandmarks
    \/ RuleHeadRatio
    \/ RuleCentering
    \/ RuleBackground
    \/ RuleLighting
    \/ ReturnReport
    \/ ValidateAgain

(***************************************************************************)
(* process_passport_photo, statement by statement.                         *)
(***************************************************************************)
NormalizeArgs ==
    [size : {MinSize - 1, MinSize, MinSize + 1, DefaultSize},
     head_ratio : {40, MinHeadRatio - 1, MinHeadRatio, DefaultHeadRatio, MaxHeadRatio,
                   MaxHeadRatio + 1},
     remove_background : BOOLEAN,
     ext : {"jpg", "png"}]

NormalizeFiles ==
    {Unreadable}
    \cup {ImageFile("RGB", 1, d[1], d[2], Grey) : d \in ValidateDims}
    \cup {ImageFile("L", 1, MaxDim, MaxDim, <<160>>), ImageFile("RGB", 6, MaxDim, 1, Grey)}

\* a face five pixels high, from row 1 to row 6: a scale that is not a
\* whole number of halves
LongFaceMeshes == {MeshFace(Point(0, 0), Point(0, 1), Point(0, 6))}

NormalizeMeshes ==
    {MeshCrash, MeshNoFace}
    \cup {MeshFace(Point(nx, ny), Point(nx, fy), Point(nx, cy)) :
             nx \in 0 .. MaxCoord, ny \in 0 .. MaxCoord, fy \in 0 .. 1, cy \in 0 .. MaxCoord}
    \cup LongFaceMeshes

NoCalls ==
    [load |-> 0, detect |-> 0, resize |-> 0, crop |-> 0, background |-> 0, remove |-> 0,
     save |-> 0]

NInit ==
    /\ npc = "check_params"
    /\ nargs \in NormalizeArgs
    /\ pil = None
    /\ nmesh = None
    /\ nlm = None
    /\ head_height_px = 0
    /\ scale = None
    /\ bgr_rs = None
    /\ nose_rs = None
    /\ cropped = None
    /\ out_pil = None
    /\ saved = None
    /\ nraised = None
    /\ rembgDid = "none"
    /\ calls = NoCalls

\* no call of process_passport_photo is under way
NIdle ==
    /\ npc = "idle"
    /\ nargs = None
    /\ pil = None
    /\ nmesh = None
    /\ nlm = None
    /\ head_height_px = 0
    /\ scale = None
    /\ bgr_rs = None
    /\ nose_rs = None
    /\ cropped = None
    /\ out_pil = None
    /\ saved = None
    /\ nraised = None
    /\ rembgDid = "none"
    /\ calls = NoCalls

\* an exception leaves process_passport_photo from the statement at
Propagate(error, at) ==
    /\ npc' = "raised"
    /\ nraised' = [error |-> error, at |-> at]

\* if size < 200: raise ...; if not (0.50 <= head_ratio <= 0.69): raise ...
CheckParams ==
    /\ npc = "check_params"
    /\ IF ParamsError(nargs.size, nargs.head_ratio) # ""
         THEN Propagate(ParamsError(nargs.size, nargs.head_ratio), "check_params")
         ELSE npc' = "load" /\ UNCHANGED nraised
    /\ UNCHANGED <<nargs, pil, nmesh, nlm, head_height_px, scale, bgr_rs, nose_rs, cropped,
                   out_pil, saved, rembgDid, calls>>
    /\ UNCHANGED <<vvars, cvars, rvars, avars, gvars>>

\* pil = _load_image_rgb(input_path)
LoadImage ==
    /\ npc = "load"
    /\ \E file \in NormalizeFiles :
         LET r == _load_image_rgb(file)
         IN  IF r.raised
               THEN Propagate(r.error, "load") /\ UNCHANGED pil
               ELSE pil' = r.value /\ npc' = "detect" /\ UNCHANGED nraised
    /\ calls' = [calls EXCEPT !.load = @ + 1]
    /\ UNCHANGED <<nargs, nmesh, nlm, head_height_px, scale, bgr_rs, nose_rs, cropped,
                   out_pil, saved, rembgDid>>
    /\ UNCHANGED <<vvars, cvars, rvars, avars, gvars>>

\* nose, forehead, chin = _detect_face_landmarks(pil)
\* head_height_px = chin.y - forehead.y
DetectLandmarks ==
    /\ npc = "detect"
    /\ \E mesh \in NormalizeMeshes :
         LET r == _detect_face_landmarks(mesh)
         IN  /\ nmesh' = mesh
             /\ IF r.raised
                   THEN Propagate(r.error, "detect") /\ UNCHANGED <<nlm, head_height_px>>
                   ELSE /\ nlm' = r.value
                        /\ head_height_px' = r.value.chin.y - r.value.forehead.y
                        /\ npc' = "scale"
                        /\ UNCHANGED nraised
    /\ calls' = [calls EXCEPT !.detect = @ + 1]
    /\ UNCHANGED <<nargs, pil, scale, bgr_rs, nose_rs, cropped, out_pil, saved, rembgDid>>
    /\ UNCHANGED <<vvars, cvars, rvars, avars, gvars>>

\* target_head_px = head_ratio * float(size)
\* scale = target_head_px / float(head_height_px)
ComputeScale ==
    /\ npc = "scale"
    /\ IF head_height_px = 0
         THEN Propagate("ZeroDivisionError: float division by zero", "scale")
              /\ UNCHANGED scale
         ELSE /\ scale' = ScaleFor(nargs.head_ratio, nargs.size, head_height_px)
              /\ npc' = "resize"
              /\ UNCHANGED nraised
    /\ UNCHANGED <<nargs, pil, nmesh, nlm, head_height_px, bgr_rs, nose_rs, cropped, out_pil,
                   saved, rembgDid, calls>>
    /\ UNCHANGED <<vvars, cvars, rvars, avars, gvars>>

\* bgr = _pil_to_bgr_np(pil); bgr_rs = _resize_bgr(bgr, scale)
\* nose_rs = (nose.x * scale, nose.y * scale)
Resize ==
    /\ npc = "resize"
    /\ LET r == _resize_bgr(_pil_to_bgr_np(pil), scale)
       IN  IF r.raised
             THEN Propagate(r.error, "resize") /\ UNCHANGED <<bgr_rs, nose_rs>>
             ELSE /\ bgr_rs' = r.value
                  /\ nose_rs' = [x |-> [n |-> nlm.nose.x * scale.n, d |-> scale.d],
                                 y |-> [n |-> nlm.nose.y * scale.n, d |-> scale.d]]
                  /\ npc' = "crop"
                  /\ UNCHANGED nraised
    /\ calls' = [calls EXCEPT !.resize = @ + 1]
    /\ UNCHANGED <<nargs, pil, nmesh, nlm, head_height_px, scale, cropped, out_pil, saved,
                   rembgDid>>
    /\ UNCHANGED <<vvars, cvars, rvars, avars, gvars>>

\* cropped = _crop_square_with_padding(bgr_rs, nose_rs, size=size, pad_color_bgr=(255, 255, 255))
Crop ==
    /\ npc = "crop"
    /\ LET r == _crop_square_with_padding(bgr_rs, nose_rs, nargs.size, White)
       IN  IF r.raised
             THEN Propagate(r.error, "crop") /\ UNCHANGED cropped
             ELSE cropped' = r.value /\ npc' = "to_pil" /\ UNCHANGED nraised
    /\ calls' = [calls EXCEPT !.crop = @ + 1]
    /\ UNCHANGED <<nargs, pil, nmesh, nlm, head_height_px, scale, bgr_rs, nose_rs, out_pil,
                   saved, rembgDid>>
    /\ UNCHANGED <<vvars, cvars, rvars, avars, gvars>>

\* out_pil = _bgr_np_to_pil(cropped)
ToPil ==
    /\ npc = "to_pil"
    /\ out_pil' = _bgr_np_to_pil(cropped)
    /\ npc' = "background"
    /\ UNCHANGED <<nargs, pil, nmesh, nlm, head_height_px, scale, bgr_rs, nose_rs, cropped,
                   saved, nraised, rembgDid, calls>>
    /\ UNCHANGED <<vvars, cvars, rvars, avars, gvars>>

\* if remove_background: out_pil = _white_background_with_rembg(out_pil)
RemoveBackground ==
    /\ npc = "background"
    /\ \E rembg \in (IF nargs.remove_background THEN RembgOutcomes ELSE {"off"}) :
         IF rembg = "off"
           THEN npc' = "save" /\ UNCHANGED <<out_pil, nraised, rembgDid, calls>>
           ELSE LET r == _white_background_with_rembg(out_pil, rembg)
                IN  /\ rembgDid' = rembg
                    /\ calls' = [calls EXCEPT !.background = @ + 1,
                                              !.remove = @ + RemoveInvocations(rembg)]
                    /\ IF r.raised
                          THEN Propagate(r.error, "background") /\ UNCHANGED out_pil
                          ELSE out_pil' = r.value /\ npc' = "save" /\ UNCHANGED nraised
    /\ UNCHANGED <<nargs, pil, nmesh, nlm, head_height_px, scale, bgr_rs, nose_rs, cropped,
                   saved>>
    /\ UNCHANGED <<vvars, cvars, rvars, avars, gvars>>

\* out_pil.save(output_path, ...): the file is written, or the save raises
Save ==
    /\ npc = "save"
    /\ \E written \in BOOLEAN :
         IF written
           THEN saved' = SavedFile(out_pil, nargs.ext) /\ npc' = "returned"
                /\ UNCHANGED nraised
           ELSE Propagate("OSError: cannot write image", "save") /\ UNCHANGED saved
    /\ calls' = [calls EXCEPT !.save = @ + 1]
    /\ UNCHANGED <<nargs, pil, nmesh, nlm, head_height_px, scale, bgr_rs, nose_rs, cropped,
                   out_pil, rembgDid>>
    /\ UNCHANGED <<vvars, cvars, rvars, avars, gvars>>

NNext ==
    \/ CheckParams
    \/ LoadImage
    \/ DetectLandmarks
    \/ ComputeScale
    \/ Resize
    \/ Crop
    \/ ToPil
    \/ RemoveBackground
    \/ Save

(***************************************************************************)
(* _crop_square_with_padding called on its own, on small images whose      *)
(* pixels are all different.                                               *)
(***************************************************************************)
\* the image w wide and h high whose pixel at (x, y) is (x, y, 128)
Gradient(w, h) ==
    [kind |-> "pixels", mode |-> "BGR", w |-> w, h |-> h,
     px |-> [p \in Positions(w, h) |-> <<p[1], p[2], 128>>]]

CropImages == {Gradient(d[1], d[2]) : d \in ValidateDims}

\* centres on the half-pixel grid, from beyond the left and top of the image
\* to beyond its right and bottom
CropCenters ==
    {[x |-> [n |-> a, d |-> 2], y |-> [n |-> b, d |-> 2]] :
        a \in (0 - 2 * MaxCropSize) .. 2 * (MaxDim + MaxCropSize),
        b \in (0 - 2 * MaxCropSize) .. 2 * (MaxDim + MaxCropSize)}

CInit ==
    /\ cpc = "call"
    /\ cimg \in CropImages
    /\ ccenter \in CropCenters
    /\ csize \in 1 .. MaxCropSize
    /\ cpad \in {White, Black}
    /\ cout = None

\* no call of _crop_square_with_padding is under way
CIdle ==
    /\ cpc = "idle"
    /\ cimg = None
    /\ ccenter = None
    /\ csize = 0
    /\ cpad = None
    /\ cout = None

CropCall ==
    /\ cpc = "call"
    /\ cout' = _crop_square_with_padding(cimg, ccenter, csize, cpad)
    /\ cpc' = "returned"
    /\ UNCHANGED <<cimg, ccenter, csize, cpad>>
    /\ UNCHANGED <<vvars, nvars, rvars, avars, gvars>>

CNext == CropCall

(***************************************************************************)
(* A ValidationReport in the hands of the GUI: on_copy_report,             *)
(* _render_validation_report, and assignments to the fields of the frozen  *)
(* dataclasses.                                                            *)
(***************************************************************************)
\* how often the report is copied
MaxCopies == 2

\* validate_passport_photo as one expression: the five results in order
validate_passport_photo(image, params, available, mesh) ==
    LET arr == _pil_to_np_rgb(image)
        got == _get_landmarks(available, mesh)
    IN  ValidationReport(<<
            SizeRule(image, params),
            HeadRatioRule(IF got # None THEN _lm_xy(got.forehead) ELSE None,
                          IF got # None THEN _lm_xy(got.chin) ELSE None, arr.shape[1]),
            CenteringRule(IF got # None THEN _lm_xy(got.nose) ELSE None, arr.shape[2]),
            BackgroundRule(arr),
            LightingRule(arr)>>)

\* the glyphs of a passed and of a failed rule, by their code points
CheckMark == "U+2705"

CrossMark == "U+274C"

\* one line of the report text: a glyph, a head and a message; a line
\* without glyph and message is its head alone
TextLine(head) == [glyph |-> "", head |-> head, message |-> Message("", <<>>, "")]

\* mutant of format_report_text: every rule line carries the glyph of the
\* overall verdict
format_report_text_overall_glyph(rep) ==
    <<TextLine("PassportShop Validation Report"),
      TextLine("--------------------------------"),
      TextLine(IF rep.passed THEN "Overall: PASS" ELSE "Overall: FAIL"),
      TextLine("")>>
    \o [i \in 1 .. Len(rep.results) |->
           [glyph |-> IF rep.passed THEN CheckMark ELSE CrossMark,
            head |-> rep.results[i].rule_id,
            message |-> rep.results[i].message]]

\* format_report_text: the lines that "\n".join puts together (no line of a
\* report holds a newline); a rule line is f"{mark} {r.rule_id}: {r.message}"
format_report_text(rep) ==
    <<TextLine("PassportShop Validation Report"),
      TextLine("--------------------------------"),
      TextLine(IF rep.passed THEN "Overall: PASS" ELSE "Overall: FAIL"),
      TextLine("")>>
    \o [i \in 1 .. Len(rep.results) |->
           [glyph |-> IF rep.results[i].passed THEN CheckMark ELSE CrossMark,
            head |-> rep.results[i].rule_id,
            message |-> rep.results[i].message]]

\* the rows _render_validation_report inserts: (rule_id, status, message)
TreeRows(rep) ==
    [i \in 1 .. Len(rep.results) |->
        <<rep.results[i].rule_id,
          IF rep.results[i].passed THEN CheckMark ELSE CrossMark,
          rep.results[i].message>>]

\* mutant of FrozenSetattr: the dataclass is not frozen
PlainSetattr(obj, name, value) == Returned([obj EXCEPT ![name] = value])

\* obj.name = value on a dataclass(frozen=True): FrozenInstanceError
FrozenSetattr(obj, name, value) == Raised("FrozenInstanceError: cannot assign to field")

\* the reports the GUI is given: small images, sizes that fit and do not,
\* landmarks found, missing and off centre
ReportImages ==
    {Painted("RGB", 2, 2, bg, {}, bg) : bg \in {White, Grey}}
    \cup {Painted("RGB", MaxDim, MaxDim, Grey, {<<0, 0>>}, Cream)}

Reports ==
    {validate_passport_photo(image, ProcessingParams(size, DefaultHeadRatio, TRUE),
                             available, mesh) :
        image \in ReportImages, size \in {2, DefaultSize}, available \in BOOLEAN,
        mesh \in {MeshNoFace, MeshFace(Point(1, 0), Point(1, 0), Point(1, 1)),
                  MeshFace(Point(0, 0), Point(0, 0), Point(0, MaxCoord))}}

\* a value for the field name that differs from the one obj has
OtherValue(obj, name) ==
    IF name = "passed" THEN ~obj.passed
    ELSE IF name = "results" THEN <<>>
    ELSE IF name = "rule_id" THEN "changed"
    ELSE IF name = "message" THEN Message("changed", <<>>, "")
    ELSE [changed |-> TRUE]

RInit ==
    /\ rreport \in Reports
    /\ texts = <<>>
    /\ tree = None
    /\ assigned = None

\* no report is in the hands of the GUI
RIdle ==
    /\ rreport = None
    /\ texts = <<>>
    /\ tree = None
    /\ assigned = None

\* on_copy_report: text = format_report_text(report), put on the clipboard
CopyReport ==
    /\ rreport # None
    /\ Len(texts) < MaxCopies
    /\ texts' = Append(texts, format_report_text(rreport))
    /\ UNCHANGED <<rreport, tree, assigned>>
    /\ UNCHANGED <<vvars, nvars, cvars, avars, gvars>>

\* _render_validation_report: the rows of the tree are replaced
RenderReport ==
    /\ rreport # None
    /\ tree' = TreeRows(rreport)
    /\ UNCHANGED <<rreport, texts, assigned>>
    /\ UNCHANGED <<vvars, nvars, cvars, avars, gvars>>

\* rep.passed = ..., rep.results = ... (test_report_is_frozen)
AssignReportField ==
    /\ rreport # None
    /\ \E name \in {"passed", "results"} :
         LET r == FrozenSetattr(rreport, name, OtherValue(rreport, name))
         IN  /\ assigned' = [target |-> 0, name |-> name, raised |-> r.raised]
             /\ rreport' = IF r.raised THEN rreport ELSE r.value
    /\ UNCHANGED <<texts, tree>>
    /\ UNCHANGED <<vvars, nvars, cvars, avars, gvars>>

\* rr.rule_id = ..., rr.passed = ..., rr.message = ..., rr.metrics = ...
\* for a result rr of the report
AssignResultField ==
    /\ rreport # None
    /\ \E i \in 1 .. Len(rreport.results) :
       \E name \in {"rule_id", "passed", "message", "metrics"} :
         LET r == FrozenSetattr(rreport.results[i], name,
                                OtherValue(rreport.results[i], name))
         IN  /\ assigned' = [target |-> i, name |-> name, raised |-> r.raised]
             /\ rreport' = IF r.raised THEN rreport
                           ELSE [rreport EXCEPT !.results[i] = r.value]
    /\ UNCHANGED <<texts, tree>>
    /\ UNCHANGED <<vvars, nvars, cvars, avars, gvars>>

RNext ==
    \/ CopyReport
    \/ RenderReport
    \/ AssignReportField
    \/ AssignResultField

(***************************************************************************)
(* The session: AppState, the frozen ProcessingParams objects it and the   *)
(* workers refer to, and the preview file of TempPaths.                    *)
(***************************************************************************)
\* how many ProcessingParams objects are made in one run
MaxObjects == 6

\* how many workers are in flight at once
MaxWorkers == 2

\* how often cleanup is called in a row
MaxCleanups == 3

\* a field that is set
Some(v) == [some |-> v]

\* ProcessingParams(): the defaults of the dataclass
DefaultParams == ProcessingParams(DefaultSize, DefaultHeadRatio, TRUE)

\* ProcessingParams(size=500, head_ratio=0.6, remove_background=False)
OtherParams == ProcessingParams(500, 60, FALSE)

\* a new object with the value v, at the next address
Alloc(h, v) == [h |-> [objs |-> [h.objs EXCEPT ![h.next] = v], next |-> h.next + 1],
                id |-> h.next]

\* the value obj with the fields named in changes replaced
WithChanges(obj, changes) ==
    [f \in DOMAIN obj |-> IF f \in DOMAIN changes THEN changes[f] ELSE obj[f]]

\* mutant of replace: the fields are changed on the object itself
replace_in_place(h, id, changes) ==
    [h |-> [h EXCEPT !.objs[id] = WithChanges(h.objs[id], changes)], id |-> id]

\* dataclasses.replace(obj, **changes): a new object, obj left as it is
replace(h, id, changes) == Alloc(h, WithChanges(h.objs[id], changes))

\* the objects no reference in roots leads to are dropped
Collect(h, roots) ==
    [h EXCEPT !.objs = [i \in DOMAIN h.objs |-> IF i \in roots THEN h.objs[i] ELSE None]]

\* what the three Tk variables hold: a size and a head ratio that may not
\* parse, and a flag
Invalid == [ok |-> FALSE]

Valid(v) == [ok |-> TRUE, value |-> v]

UiValues ==
    [size : {Invalid, Valid(500)},
     head_ratio : {Invalid, Valid(60)},
     remove_bg : BOOLEAN]

\* _sync_params_from_ui: up to three replace() calls, each on the result of
\* the one before; the heap after them and the object state.params is set to
SyncAfterSize(r, ui) ==
    IF ui.size.ok THEN replace(r.h, r.id, [size |-> ui.size.value]) ELSE r

SyncAfterHeadRatio(r, ui) ==
    IF ui.head_ratio.ok THEN replace(r.h, r.id, [head_ratio |-> ui.head_ratio.value]) ELSE r

SyncAfterRemoveBg(r, ui) == replace(r.h, r.id, [remove_background |-> ui.remove_bg])

_sync_params_from_ui(h, id, ui) ==
    SyncAfterRemoveBg(SyncAfterHeadRatio(SyncAfterSize([h |-> h, id |-> id], ui), ui), ui)

\* AppState(): every field None, params the defaults
AppState(params) ==
    [input_path |-> None, original_pil |-> None, processed_pil |-> None,
     processed_temp_path |-> None, params |-> params, validation_report |-> None]

\* mutant of reset: params is left as it is
reset_keeps_params(st, h) ==
    [st |-> AppState(st.params), h |-> h]

\* AppState.reset: the five fields None, params a new ProcessingParams()
reset(st, h) ==
    [st |-> AppState(Alloc(h, DefaultParams).id), h |-> Alloc(h, DefaultParams).h]

\* mutant of cleanup: no try around the unlink
cleanup_unguarded(file) ==
    IF file = "present" THEN [file |-> "absent", raised |-> FALSE]
    ELSE IF file = "locked" THEN [file |-> "locked", raised |-> TRUE]
    ELSE [file |-> "absent", raised |-> FALSE]

\* TempPaths.cleanup: the preview file is unlinked if it exists; a file that
\* cannot be unlinked (locked) stays, and the exception is swallowed
cleanup(file) ==
    IF file = "present" THEN [file |-> "absent", raised |-> FALSE]
    ELSE IF file = "locked" THEN [file |-> "locked", raised |-> FALSE]
    ELSE [file |-> "absent", raised |-> FALSE]

\* the objects referred to: by the AppState and by the workers in flight
Roots(st, ws) == {st.params} \cup {ws[k].id : k \in 1 .. Len(ws)}

AInit ==
    /\ heap = [objs |-> [i \in 1 .. MaxObjects |-> IF i = 1 THEN DefaultParams ELSE None],
               next |-> 2]
    /\ astate = AppState(1)
    /\ snaps = <<>>
    /\ passigned = None
    /\ preview \in {"absent", "present", "locked"}
    /\ alast = [op |-> "init"]

\* no session
AIdle ==
    /\ heap = None
    /\ astate = None
    /\ snaps = <<>>
    /\ passigned = None
    /\ preview = "absent"
    /\ alast = None

\* on_upload: nothing changes when the dialog is cancelled or the image
\* cannot be opened; else the input is set and what came of the previous
\* input is dropped
OnUpload ==
    /\ \E loaded \in BOOLEAN :
         astate' = IF loaded
                     THEN [astate EXCEPT !.input_path = Some("input_path"),
                                         !.original_pil = Some("original_pil"),
                                         !.processed_pil = None,
                                         !.processed_temp_path = None,
                                         !.validation_report = None]
                     ELSE astate
    /\ UNCHANGED <<heap, snaps, passigned, preview, alast>>
    /\ UNCHANGED <<vvars, nvars, cvars, rvars, gvars>>

\* the worker of kind started after the params are synced from the UI:
\* params = self.state.params is what the worker will read
Started(kind, r, st) ==
    /\ astate' = [st EXCEPT !.params = r.id]
    /\ snaps' = Append(snaps, [kind |-> kind, id |-> r.id, value |-> r.h.objs[r.id]])
    /\ heap' = Collect(r.h, Roots([st EXCEPT !.params = r.id], snaps))

\* on_process up to the start of the thread
OnProcess ==
    /\ astate.input_path # None
    /\ Len(snaps) < MaxWorkers
    /\ heap.next + 3 <= MaxObjects + 1
    /\ \E ui \in UiValues :
         Started("process", _sync_params_from_ui(heap, astate.params, ui),
                 [astate EXCEPT !.processed_temp_path = Some("processed_temp_path")])
    /\ UNCHANGED <<passigned, preview, alast>>
    /\ UNCHANGED <<vvars, nvars, cvars, rvars, gvars>>

\* on_validate up to the start of the thread
OnValidate ==
    /\ astate.processed_pil # None
    /\ Len(snaps) < MaxWorkers
    /\ heap.next + 3 <= MaxObjects + 1
    /\ \E ui \in UiValues :
         Started("validate", _sync_params_from_ui(heap, astate.params, ui), astate)
    /\ UNCHANGED <<passigned, preview, alast>>
    /\ UNCHANGED <<vvars, nvars, cvars, rvars, gvars>>

\* snaps without its k-th entry
Without(ws, k) == SubSeq(ws, 1, k - 1) \o SubSeq(ws, k + 1, Len(ws))

\* a worker has read params.size, params.head_ratio and
\* params.remove_background for its call, and finish_on_ui_thread has run:
\* a processed image is loaded or dropped, a report is stored or not
FinishWorker ==
    /\ snaps # <<>>
    /\ \E k \in 1 .. Len(snaps), ok \in BOOLEAN :
         /\ snaps' = Without(snaps, k)
         /\ astate' = IF snaps[k].kind = "process"
                        THEN [astate EXCEPT
                                 !.processed_pil = IF ok THEN Some("processed_pil") ELSE None,
                                 !.validation_report = None]
                      ELSE IF ok
                        THEN [astate EXCEPT !.validation_report = Some("validation_report")]
                      ELSE astate
         /\ preview' = IF snaps[k].kind = "process" /\ ok /\ preview = "absent"
                         THEN "present" ELSE preview
         /\ heap' = Collect(heap, Roots(astate, Without(snaps, k)))
    /\ UNCHANGED <<passigned, alast>>
    /\ UNCHANGED <<vvars, nvars, cvars, rvars, gvars>>

\* on_restore_defaults: state.params = replace(state.params, size=600, ...)
RestoreDefaults ==
    /\ heap.next + 1 <= MaxObjects + 1
    /\ LET r == replace(heap, astate.params,
                        [size |-> DefaultSize, head_ratio |-> DefaultHeadRatio,
                         remove_background |-> TRUE])
       IN  /\ astate' = [astate EXCEPT !.params = r.id]
           /\ heap' = Collect(r.h, Roots([astate EXCEPT !.params = r.id], snaps))
    /\ UNCHANGED <<snaps, passigned, preview, alast>>
    /\ UNCHANGED <<vvars, nvars, cvars, rvars, gvars>>

\* p.size = 700 and the like on a ProcessingParams (test_frozen)
AssignParamsField ==
    /\ \E id \in Roots(astate, snaps) :
       \E change \in {<<"size", 700>>, <<"head_ratio", 50>>, <<"remove_background", FALSE>>} :
         LET r == FrozenSetattr(heap.objs[id], change[1], change[2])
         IN  /\ passigned' = [name |-> change[1], raised |-> r.raised]
             /\ heap' = IF r.raised THEN heap ELSE [heap EXCEPT !.objs[id] = r.value]
    /\ UNCHANGED <<astate, snaps, preview, alast>>
    /\ UNCHANGED <<vvars, nvars, cvars, rvars, gvars>>

PNext ==
    \/ OnUpload
    \/ OnProcess
    \/ OnValidate
    \/ FinishWorker
    \/ RestoreDefaults
    \/ AssignParamsField

\* s.input_path = ..., s.processed_pil = ..., s.params = ProcessingParams(...):
\* AppState is a plain dataclass, any field can be set
SetField ==
    /\ \/ \E name \in {"input_path", "original_pil", "processed_pil",
                       "processed_temp_path", "validation_report"} :
            /\ astate[name] = None
            /\ astate' = [astate EXCEPT ![name] = Some(name)]
            /\ UNCHANGED heap
       \/ /\ heap.next + 1 <= MaxObjects + 1
          /\ astate' = [astate EXCEPT !.params = Alloc(heap, OtherParams).id]
          /\ heap' = Collect(Alloc(heap, OtherParams).h, {Alloc(heap, OtherParams).id})
    /\ alast' = [op |-> "set"]
    /\ UNCHANGED <<snaps, passigned, preview>>
    /\ UNCHANGED <<vvars, nvars, cvars, rvars, gvars>>

\* the number of the five optional fields that are set
FieldsSet(st) ==
    Cardinality({name \in {"input_path", "original_pil", "processed_pil",
                           "processed_temp_path", "validation_report"} : st[name] # None})

\* state.reset()
Reset ==
    /\ heap.next + 1 <= MaxObjects + 1
    /\ astate' = reset(astate, heap).st
    /\ heap' = Collect(reset(astate, heap).h, {reset(astate, heap).st.params})
    /\ alast' = [op |-> "reset", fields |-> FieldsSet(astate),
                 defaults |-> heap.objs[astate.params] = DefaultParams]
    /\ UNCHANGED <<snaps, passigned, preview>>
    /\ UNCHANGED <<vvars, nvars, cvars, rvars, gvars>>

\* the number of calls of cleanup in a row that the next call ends
CleanupsInARow == IF alast.op = "cleanup" THEN alast.row + 1 ELSE 1

\* temp_paths.cleanup()
Cleanup ==
    /\ CleanupsInARow <= MaxCleanups
    /\ preview' = cleanup(preview).file
    /\ alast' = [op |-> "cleanup", before |-> preview, raised |-> cleanup(preview).raised,
                 row |-> CleanupsInARow]
    /\ UNCHANGED <<astate, heap, snaps, passigned>>
    /\ UNCHANGED <<vvars, nvars, cvars, rvars, gvars>>

\* the preview file is written (by the pipeline) or becomes impossible to
\* remove (opened elsewhere, permissions changed)
PreviewChanges ==
    /\ \E file \in {"present", "locked"} :
         /\ file # preview
         /\ preview' = file
    /\ alast' = [op |-> "file"]
    /\ UNCHANGED <<astate, heap, snaps, passigned>>
    /\ UNCHANGED <<vvars, nvars, cvars, rvars, gvars>>

SNext ==
    \/ SetField
    \/ Reset
    \/ Cleanup
    \/ PreviewChanges

(***************************************************************************)
(* The window (PassportShopApp): the handlers of the buttons and of the    *)
(* keyboard shortcuts, the worker threads of on_process and on_validate,   *)
(* and their completion callbacks on the event loop.  A file the user      *)
(* opens is a number from 1; a processed image is [input, run]: the file   *)
(* it was made from and the worker that made it.                           *)
(***************************************************************************)
\* how many different files the user opens
MaxFiles == 1

\* how many workers are started in one session
MaxRuns == 2

\* a preview file left by an earlier session (the path is the same each time)
Leftover == [input |-> 0, run |-> 0]

\* what the Tk variables hold when a handler reads them: the texts written
\* at construction, or a text that does not parse
GuiUiValues ==
    [size : {Invalid, Valid(DefaultSize)}, head_ratio : {Invalid, Valid(DefaultHeadRatio)},
     remove_bg : {TRUE}]

\* _sync_params_from_ui, on a ProcessingParams value
SyncedParams(params, ui) ==
    WithChanges(
        WithChanges(
            WithChanges(params, IF ui.size.ok THEN [size |-> ui.size.value] ELSE <<>>),
            IF ui.head_ratio.ok THEN [head_ratio |-> ui.head_ratio.value] ELSE <<>>),
        [remove_background |-> ui.remove_bg])

\* the buttons as __init__ leaves them: _set_buttons_initial_state
InitialButtons ==
    [upload |-> TRUE, process |-> FALSE, validate |-> FALSE, save |-> FALSE,
     reset |-> TRUE, copy_report |-> FALSE]

_set_buttons_initial_state(b) ==
    [b EXCEPT !.process = FALSE, !.validate = FALSE, !.save = FALSE, !.copy_report = FALSE]

_clear_validation_view(b) == [b EXCEPT !.copy_report = FALSE]

\* the buttons after _set_processing_ui(processing) in the state st
_set_processing_ui(st, processing) ==
    IF processing
      THEN [upload |-> FALSE, process |-> FALSE, validate |-> FALSE, save |-> FALSE,
            reset |-> FALSE, copy_report |-> FALSE]
      ELSE [upload |-> TRUE, reset |-> TRUE,
            process |-> st.input_path # None,
            validate |-> st.processed_pil # None,
            save |-> st.processed_pil # None,
            copy_report |-> st.validation_report # None]

\* mutant of on_upload: the report of the previous image is kept
on_upload_keeps_report(st, path) ==
    [st EXCEPT !.input_path = Some(path), !.original_pil = Some(path),
               !.processed_pil = None, !.processed_temp_path = None]

\* on_upload, once the image is loaded: what it assigns to the AppState
on_upload(st, path) ==
    [st EXCEPT !.input_path = Some(path), !.original_pil = Some(path),
               !.processed_pil = None, !.processed_temp_path = None,
               !.validation_report = None]

\* the workers in flight: threads running and callbacks not yet run
InFlight == Cardinality(running) + Len(posted)

\* a handler is called by its button, if the button is enabled, or by its
\* keyboard shortcut, if it has one (bind_all: whatever the buttons are)
Triggered(via, enabled, shortcut) ==
    \/ via = "button" /\ enabled
    \/ via = "shortcut" /\ shortcut

\* what is kept of the last handler: which it was, whether
\* it went past its early returns, the worker it started or completed, the
\* file it opened, and the workers in flight and the number of optional
\* fields of the AppState that were set when it was called
Handled(op, effect, run, path) ==
    glast' = [op |-> op, effect |-> effect, run |-> run, path |-> path,
              inflight |-> InFlight, fields |-> FieldsSet(gstate)]

GInit ==
    /\ gstate = AppState(DefaultParams)
    /\ buttons = InitialButtons
    /\ busy = FALSE
    /\ running = {}
    /\ posted = <<>>
    /\ gfile \in {None, Some(Leftover)}
    /\ runs = 0
    /\ glast = [op |-> "init", effect |-> FALSE, run |-> 0, path |-> 0,
                inflight |-> 0, fields |-> 0]

\* no window
GIdle ==
    /\ gstate = None
    /\ buttons = None
    /\ busy = FALSE
    /\ running = {}
    /\ posted = <<>>
    /\ gfile = None
    /\ runs = 0
    /\ glast = None

\* on_upload: the dialog is cancelled or the image cannot be opened, and
\* nothing changes; or the image is loaded
GuiUpload ==
    \E via \in {"button", "shortcut"} :
      /\ Triggered(via, buttons.upload, TRUE)
      /\ \/ /\ UNCHANGED <<gstate, buttons>>
            /\ Handled("upload", FALSE, 0, 0)
         \/ \E path \in 1 .. MaxFiles :
              /\ gstate' = on_upload(gstate, path)
              /\ buttons' = [_clear_validation_view(buttons) EXCEPT
                                !.process = TRUE, !.validate = FALSE, !.save = FALSE]
              /\ Handled("upload", TRUE, 0, path)
      /\ UNCHANGED <<busy, running, posted, gfile, runs>>
      /\ UNCHANGED <<vvars, nvars, cvars, rvars, avars>>

\* a worker thread is started: the buttons are disabled, the bar runs
StartWorker(kind, st, ui, input, processed) ==
    /\ runs < MaxRuns
    /\ gstate' = [st EXCEPT !.params = SyncedParams(st.params, ui)]
    /\ buttons' = _set_processing_ui(st, TRUE)
    /\ busy' = TRUE
    /\ running' = running \cup {[run |-> runs + 1, kind |-> kind, input |-> input,
                                 processed |-> processed]}
    /\ runs' = runs + 1

\* on_process up to the start of the thread
GuiProcess ==
    \E via \in {"button", "shortcut"} :
      /\ Triggered(via, buttons.process, TRUE)
      /\ IF gstate.input_path = None
           THEN /\ UNCHANGED <<gstate, buttons, busy, running, runs>>
                /\ Handled("process", FALSE, 0, 0)
           ELSE /\ \E ui \in GuiUiValues :
                     StartWorker("process",
                                 [gstate EXCEPT !.processed_temp_path = Some("preview.jpg")],
                                 ui, gstate.input_path.some, Leftover)
                /\ Handled("process", TRUE, runs + 1, 0)
      /\ UNCHANGED <<posted, gfile>>
      /\ UNCHANGED <<vvars, nvars, cvars, rvars, avars>>

\* on_validate up to the start of the thread; it has no shortcut
GuiValidate ==
    /\ Triggered("button", buttons.validate, FALSE)
    /\ IF gstate.processed_pil = None
         THEN /\ UNCHANGED <<gstate, buttons, busy, running, runs>>
              /\ Handled("validate", FALSE, 0, 0)
         ELSE /\ \E ui \in GuiUiValues :
                   StartWorker("validate", gstate, ui, 0, gstate.processed_pil.some)
              /\ Handled("validate", TRUE, runs + 1, 0)
    /\ UNCHANGED <<posted, gfile>>
    /\ UNCHANGED <<vvars, nvars, cvars, rvars, avars>>

\* the thread of the worker w ends: process_passport_photo has written the
\* preview file or raised, validate_passport_photo has returned a report or
\* raised; master.after(0, finish_on_ui_thread) hands over the callback
WorkerReturns(r) ==
    \E w \in running : \E err \in BOOLEAN :
      /\ w.run = r
      /\ running' = running \ {w}
      /\ posted' = Append(posted, [run |-> w.run, kind |-> w.kind, err |-> err,
                                   processed |-> w.processed])
      /\ gfile' = IF w.kind = "process" /\ ~err
                    THEN Some([input |-> w.input, run |-> w.run])
                    ELSE gfile
      /\ UNCHANGED <<gstate, buttons, busy, runs, glast>>
      /\ UNCHANGED <<vvars, nvars, cvars, rvars, avars>>

\* mutant of finish_process: a failed run leaves the window busy
finish_process_stays_busy(st, err, loaded, file) ==
    IF err \/ ~loaded
      THEN [st |-> [st EXCEPT !.processed_pil = None, !.validation_report = None],
            buttons |-> _set_processing_ui(st, TRUE), busy |-> TRUE, ok |-> FALSE]
      ELSE [st |-> [st EXCEPT !.processed_pil = file, !.validation_report = None],
            buttons |-> _set_processing_ui(
                            [st EXCEPT !.processed_pil = file, !.validation_report = None],
                            FALSE),
            busy |-> FALSE, ok |-> TRUE]

\* finish_on_ui_thread of on_process: after an exception or a failed load
\* of the preview file the processed image and the report are dropped; else
\* the image loaded from the preview file is installed and the report dropped
finish_process(st, err, loaded, file) ==
    IF err \/ ~loaded
      THEN [st |-> [st EXCEPT !.processed_pil = None, !.validation_report = None],
            buttons |-> _set_processing_ui(
                            [st EXCEPT !.processed_pil = None, !.validation_report = None],
                            FALSE),
            busy |-> FALSE, ok |-> FALSE]
      ELSE [st |-> [st EXCEPT !.processed_pil = file, !.validation_report = None],
            buttons |-> _set_processing_ui(
                            [st EXCEPT !.processed_pil = file, !.validation_report = None],
                            FALSE),
            busy |-> FALSE, ok |-> TRUE]

\* finish_on_ui_thread of on_validate: the window leaves the busy state;
\* unless the validation raised, the report is stored and rendered
finish_validate(st, err, rep) ==
    IF err
      THEN [st |-> st, buttons |-> _set_processing_ui(st, FALSE), busy |-> FALSE,
            ok |-> FALSE]
      ELSE [st |-> [st EXCEPT !.validation_report = Some(rep)],
            buttons |-> [_set_processing_ui(st, FALSE) EXCEPT !.copy_report = TRUE],
            busy |-> FALSE, ok |-> TRUE]

Finished(cb, r) ==
    /\ gstate' = r.st
    /\ buttons' = r.buttons
    /\ busy' = r.busy
    /\ Handled(IF cb.kind = "process" THEN "finish_process" ELSE "finish_validate",
               r.ok, cb.run, 0)

\* the event loop runs the oldest callback handed to it
FinishOnUiThread ==
    /\ posted # <<>>
    /\ IF Head(posted).kind = "process"
         THEN \E readable \in BOOLEAN :
                Finished(Head(posted),
                         finish_process(gstate, Head(posted).err,
                                        readable /\ gfile # None, gfile))
         ELSE Finished(Head(posted),
                       finish_validate(gstate, Head(posted).err,
                                       [of |-> Head(posted).processed,
                                        run |-> Head(posted).run]))
    /\ posted' = Tail(posted)
    /\ UNCHANGED <<running, gfile, runs>>
    /\ UNCHANGED <<vvars, nvars, cvars, rvars, avars>>

\* on_reset: state.reset(), temp_paths.cleanup() (a file that cannot be
\* removed stays), the views cleared, the buttons as at the start
GuiReset ==
    /\ Triggered("button", buttons.reset, FALSE)
    /\ gstate' = AppState(DefaultParams)
    /\ \E removed \in BOOLEAN : gfile' = IF removed THEN None ELSE gfile
    /\ buttons' = _set_buttons_initial_state(_clear_validation_view(buttons))
    /\ Handled("reset", TRUE, 0, 0)
    /\ UNCHANGED <<busy, running, posted, runs>>
    /\ UNCHANGED <<vvars, nvars, cvars, rvars, avars>>

\* on_restore_defaults; its button is never disabled
GuiRestoreDefaults ==
    /\ gstate' = [gstate EXCEPT !.params =
                     WithChanges(gstate.params,
                                 [size |-> DefaultSize, head_ratio |-> DefaultHeadRatio,
                                  remove_background |-> TRUE])]
    /\ Handled("restore_defaults", TRUE, 0, 0)
    /\ UNCHANGED <<buttons, busy, running, posted, gfile, runs>>
    /\ UNCHANGED <<vvars, nvars, cvars, rvars, avars>>

WorkerReturnsAny == \E r \in 1 .. MaxRuns : WorkerReturns(r)

GNext ==
    \/ GuiUpload
    \/ GuiProcess
    \/ GuiValidate
    \/ WorkerReturnsAny
    \/ FinishOnUiThread
    \/ GuiReset
    \/ GuiRestoreDefaults

(***************************************************************************)
(* Specifications: one per operation, the other operations idle.           *)
(***************************************************************************)
ValidateInit == VInit /\ NIdle /\ CIdle /\ RIdle /\ AIdle /\ GIdle

SpecValidate == ValidateInit /\ [][VNext]_vars

NormalizeInit == NInit /\ VIdle /\ CIdle /\ RIdle /\ AIdle /\ GIdle

SpecNormalize == NormalizeInit /\ [][NNext]_vars

CropInit == CInit /\ VIdle /\ NIdle /\ RIdle /\ AIdle /\ GIdle

SpecCrop == CropInit /\ [][CNext]_vars

ReportInit == RInit /\ VIdle /\ NIdle /\ CIdle /\ AIdle /\ GIdle

SpecReport == ReportInit /\ [][RNext]_vars

SessionInit == AInit /\ VIdle /\ NIdle /\ CIdle /\ RIdle /\ GIdle

SpecParams == SessionInit /\ [][PNext]_vars

SpecState == SessionInit /\ [][SNext]_vars

GuiInit == GInit /\ VIdle /\ NIdle /\ CIdle /\ RIdle /\ AIdle

SpecGui == GuiInit /\ [][GNext]_vars

\* each worker thread runs to its end and the event loop runs the callbacks
\* handed to it
GuiFairness ==
    /\ \A r \in 1 .. MaxRuns : WF_vars(WorkerReturns(r))
    /\ WF_vars(FinishOnUiThread)

SpecGuiFair == GuiInit /\ [][GNext]_vars /\ GuiFairness


(***************************************************************************)
(* Claims about validate_passport_photo (SpecValidate).                    *)
(***************************************************************************)
RuleOrder == <<"Size", "Head ratio", "Centering", "Background whiteness", "Lighting">>

InOrder(rs) == \A i \in 1 .. Len(rs) : rs[i].rule_id = RuleOrder[i]

\* C1: whatever the image, the params and the outcome of the detection
\* (landmarks, detector absent, detector raising), the report returned holds
\* exactly the five results Size, Head ratio, Centering, Background
\* whiteness, Lighting in that order, whichever of them pass; the list built
\* on the way is always a prefix of that order.
C1_FiveResultsInFixedOrder ==
    /\ Len(results) <= 5 /\ InOrder(results)
    /\ vpc = "returned" =>
         /\ report # None
         /\ Len(report.results) = 5
         /\ InOrder(report.results)

\* C1 witness: a report returned after the detector raised, in which a rule
\* that passes (Size) comes before rules that fail
C1_Witness ==
    /\ vpc = "returned"
    /\ detection = "crash"
    /\ report.results[1].passed
    /\ ~report.results[2].passed
    /\ ~report.results[4].passed
    /\ report.results[5].passed

\* C2: the passed flag of every report returned is the conjunction of the
\* passed flags of its results: true if and only if every result passed.
C2_PassedIsConjunction ==
    vpc = "returned" =>
        (report.passed <=> (\A i \in DOMAIN report.results : report.results[i].passed))

\* C2 witness: a report in which every rule but one passes, and which fails
C2_Witness ==
    /\ vpc = "returned"
    /\ ~report.passed
    /\ Cardinality({i \in DOMAIN report.results : ~report.results[i].passed}) = 1

CouldNotDetect(r) ==
    /\ ~r.passed
    /\ r.message.text \in
         {"Could not detect face landmarks (needed for head size check).",
          "Could not detect face landmarks (needed for centering check)."}

\* C3: one call makes one detection attempt: _get_landmarks is called exactly
\* once, and it invokes the detector exactly once when there is a detector
\* and never more than once; Head ratio and Centering both use the landmarks
\* of that one attempt; and when the detector is absent, finds no face or
\* raises, the call still returns its five results, Head ratio and Centering
\* failed with their "Could not detect face landmarks" messages.
C3_OneDetectionAttemptShared ==
    /\ getLandmarksCalls <= 1 /\ detectorCalls <= 1
    /\ vpc \in {"head_ratio", "centering", "background", "lighting", "aggregate", "returned"} =>
         /\ getLandmarksCalls = 1
         /\ detectorCalls = (IF detection = "absent" THEN 0 ELSE 1)
    /\ (vpc = "returned" /\ detection = "landmarks") =>
         /\ report.results[2].metrics.head_px = lm.chin.y - lm.forehead.y
         /\ report.results[3].metrics.nose_x.n = lm.nose.x
    /\ (vpc = "returned" /\ detection \in {"absent", "noface", "crash", "inconsistent"}) =>
         /\ Len(report.results) = 5
         /\ report.results[2].rule_id = "Head ratio" /\ CouldNotDetect(report.results[2])
         /\ report.results[3].rule_id = "Centering" /\ CouldNotDetect(report.results[3])

\* C3 witness: a report returned by a call in which the detector raised
C3_Witness ==
    /\ vpc = "returned"
    /\ detection \in {"noface", "crash"}
    /\ detectorCalls = 1
    /\ CouldNotDetect(report.results[2])
    /\ CouldNotDetect(report.results[3])

\* C9: two calls on the same image with the same params that differ only in
\* what the detection does give the same Size, Background whiteness and
\* Lighting results: passed, message and metrics.
C9_PixelRulesIgnoreDetection ==
    (vpc = "returned" /\ prior # None) => PixelResults(report) = prior.pixel

\* C9 witness: a second call in which the detector is absent, after a first
\* call that found the landmarks
C9_Witness ==
    /\ vpc = "returned"
    /\ prior # None
    /\ prior.found
    /\ detection = "absent"

\* the three channels of a pixel are all at least 245
AllChannelsWhite(p) == p[1] >= 245 /\ p[2] >= 245 /\ p[3] >= 245

\* the pixels within margin pixels of an edge of an h by w image
Band(h, w, margin) ==
    {p \in Positions(w, h) :
        p[1] < margin \/ p[1] >= w - margin \/ p[2] < margin \/ p[2] >= h - margin}

\* C10 as claimed: Background whiteness passes iff at least 0.95 of the pixels
\* of the border band, the pixels within max(10, floor(0.05 * min(h, w)))
\* pixels of an edge, have all three channels at least 245.
C10_AsClaimed ==
    vpc = "returned" =>
        LET h == img_rgb.shape[1]
            w == img_rgb.shape[2]
            band == Band(h, w, Max(10, (5 * Min(h, w)) \div 100))
            white == {p \in band : AllChannelsWhite(img_rgb.px[p])}
        IN  report.results[4].passed <=>
                100 * Cardinality(white) >= 95 * Cardinality(band)

\* the number of the four strips of width m that hold the pixel p
Strips(p, h, w, m) ==
    (IF p[2] < m THEN 1 ELSE 0) + (IF p[2] >= h - m THEN 1 ELSE 0)
    + (IF p[1] < m THEN 1 ELSE 0) + (IF p[1] >= w - m THEN 1 ELSE 0)

RECURSIVE Weighted(_, _, _, _, _)
\* the number of samples the pixels of ps give: each once per strip it is in
Weighted(ps, h, w, m, k) ==
    IF k = 0 THEN 0
    ELSE Cardinality({p \in ps : Strips(p, h, w, m) = k}) * k + Weighted(ps, h, w, m, k - 1)

\* C10 amended: the fraction is taken over the samples of four strips, the
\* top m rows, the bottom m rows, the left m columns and the right m columns
\* with m = max(1, min(margin, h // 2, w // 2)), so a pixel that lies in two
\* strips counts twice and a pixel in none does not count; the rule passes
\* iff at least 0.95 of the samples have all three channels at least 245.
\* An image of one colour passes iff that colour has all channels at least 245.
C10_StripSamples ==
    vpc = "returned" =>
        LET h == img_rgb.shape[1]
            w == img_rgb.shape[2]
            margin == Max(10, (5 * Min(h, w)) \div 100)
            m == Max(1, Min(margin, Min(h \div 2, w \div 2)))
            all == Positions(w, h)
            white == {p \in all : AllChannelsWhite(img_rgb.px[p])}
        IN  /\ report.results[4].passed <=>
                  100 * Weighted(white, h, w, m, 4) >= 95 * Weighted(all, h, w, m, 4)
            /\ report.results[4].metrics.margin_px = margin
            /\ white = all => report.results[4].passed
            /\ white = {} => ~report.results[4].passed

\* C10 witnesses: an image whose border is white and whose middle pixel, which
\* lies in no strip, is black passes; an image of one colour with one channel
\* below 245 fails
C10_Witness ==
    /\ vpc = "returned"
    /\ report.results[4].passed
    /\ \E p \in DOMAIN img_rgb.px : img_rgb.px[p] = Black

(***************************************************************************)
(* Claims about process_passport_photo (SpecNormalize).                    *)
(***************************************************************************)
\* the image is w wide and h high and has three channels
IsSquareOf(img, size) == img.w = size /\ img.h = size /\ img.mode \in {"RGB", "BGR"}

\* C4: with valid parameters and landmarks whose chin is below the forehead,
\* the cropped image, the image after the optional background removal and
\* the image saved are each exactly size wide and size high with three
\* channels, and no step from the scaling to the background removal raises.
C4_OutputIsSizeSquare ==
    /\ cropped # None => IsSquareOf(cropped, nargs.size)
    /\ out_pil # None => IsSquareOf(out_pil, nargs.size)
    /\ saved # None => IsSquareOf(saved.image, nargs.size)
    /\ nraised # None => nraised.at \in {"check_params", "load", "detect", "save"}
    /\ npc = "returned" => saved # None

\* C4 witness: an image is saved whose face was so close to the left and top
\* edges that the source fills only a part of the square
C4_Witness ==
    /\ npc = "returned"
    /\ cropped.patch # None
    /\ cropped.patch.dx > 0
    /\ cropped.patch.dy > 0
    /\ cropped.patch.dw < nargs.size
    /\ saved.image.w = nargs.size
    /\ saved.image.h = nargs.size

\* C5: a call with size < 200 or head_ratio outside [0.50, 0.69] raises a
\* ValueError from the parameter checks: the image is never loaded, the
\* detector never invoked, no scale is computed from the value and nothing
\* is written.
C5_InvalidParamsRejectedFirst ==
    (nargs # None /\ (nargs.size < 200 \/ nargs.head_ratio < 50 \/ nargs.head_ratio > 69)) =>
        /\ npc \in {"check_params", "raised"}
        /\ npc = "raised" =>
              /\ nraised.at = "check_params"
              /\ nraised.error \in {"ValueError: size too small",
                                    "ValueError: head_ratio should be between 0.50 and 0.69"}
        /\ calls = NoCalls
        /\ pil = None /\ nmesh = None /\ nlm = None /\ scale = None
        /\ bgr_rs = None /\ cropped = None /\ out_pil = None /\ saved = None

\* C5 witness: size 600 with head_ratio 0.40 has been rejected
C5_Witness ==
    /\ npc = "raised"
    /\ nargs.size = 600
    /\ nargs.head_ratio = 40
    /\ nraised.at = "check_params"
    /\ calls.load = 0

\* the detector found no face, or a chin that is not below the forehead
DetectionFailed ==
    /\ nmesh # None
    /\ \/ nmesh.kind = "noface"
       \/ nmesh.kind = "face" /\ nmesh.chin.y <= nmesh.forehead.y

\* C6: when the detector finds no face or a chin that is not below the
\* forehead, the call has raised a RuntimeError from the detection, the
\* detector was invoked once, and nothing was resized, cropped, cleaned of
\* its background or saved.
C6_DetectionFailureAborts ==
    DetectionFailed =>
        /\ npc = "raised"
        /\ nraised.at = "detect"
        /\ nraised.error \in {"RuntimeError: No face detected",
                              "RuntimeError: Face landmarks looked inconsistent"}
        /\ calls.detect = 1
        /\ calls.resize = 0 /\ calls.crop = 0 /\ calls.background = 0
        /\ calls.remove = 0 /\ calls.save = 0
        /\ scale = None /\ bgr_rs = None /\ cropped = None /\ out_pil = None
        /\ saved = None

\* C6 witness: a face whose chin is level with its forehead has aborted the call
C6_Witness ==
    /\ npc = "raised"
    /\ nmesh # None
    /\ nmesh.kind = "face"
    /\ nmesh.chin.y = nmesh.forehead.y
    /\ nraised.at = "detect"

\* C8: when rembg cannot be imported or anything raises while it is used,
\* the image that goes on to be saved is the cropped square as it was handed
\* over, and the call does not raise at the background step; no exception
\* ever leaves the background step; with remove_background false the step
\* and rembg are never invoked.
C8_BackgroundRemovalNeverRaises ==
    /\ rembgDid \in {"absent", "raises", "bytes"} =>
          /\ npc \in {"save", "returned", "raised"}
          /\ out_pil = _bgr_np_to_pil(cropped)
          /\ npc = "raised" => nraised.at = "save"
          /\ npc = "returned" => saved.image = _bgr_np_to_pil(cropped)
    /\ nraised # None => nraised.at # "background"
    /\ (nargs # None /\ ~nargs.remove_background) =>
          /\ calls.background = 0
          /\ calls.remove = 0
          /\ rembgDid = "none"
          /\ out_pil \in {None, _bgr_np_to_pil(cropped)}

\* C8 witness: rembg raised and the plain cropped square was saved
C8_Witness ==
    /\ npc = "returned"
    /\ nargs.remove_background
    /\ rembgDid = "raises"
    /\ calls.remove = 1
    /\ saved.image = _bgr_np_to_pil(cropped)

(***************************************************************************)
(* Claims about _crop_square_with_padding (SpecCrop).                      *)
(***************************************************************************)
\* the square of side csize about ccenter lies left of, right of, above or
\* below the image (ccenter is in half pixels)
EntirelyOutside ==
    \/ ccenter.x.n + csize <= 0
    \/ ccenter.x.n - csize >= 2 * cimg.w
    \/ ccenter.y.n + csize <= 0
    \/ ccenter.y.n - csize >= 2 * cimg.h

\* C7: a crop whose requested square lies entirely outside the image, in any
\* direction, returns without raising a size by size image whose every
\* pixel is the fill colour.
C7_OutsideCropIsAllFill ==
    (cpc = "returned" /\ EntirelyOutside) =>
        /\ ~cout.raised
        /\ cout.value.w = csize
        /\ cout.value.h = csize
        /\ \A x \in 0 .. csize - 1 : \A y \in 0 .. csize - 1 :
              PixelAt(cout.value, x, y) = cpad

\* C7 witness: a square below the image, not left or right of it, filled
\* with (255, 255, 255)
C7_Witness ==
    /\ cpc = "returned"
    /\ ccenter.y.n - csize >= 2 * cimg.h
    /\ ccenter.x.n + csize > 0
    /\ ccenter.x.n - csize < 2 * cimg.w
    /\ cpad = <<255, 255, 255>>
    /\ ~cout.raised
    /\ csize > 1

(***************************************************************************)
(* Claims about the Lighting rule and the test scenario (SpecValidate).    *)
(***************************************************************************)
\* luma = 0.2126*R + 0.7152*G + 0.0722*B of a pixel
LumaOf(p) == (2126 * p[1] + 7152 * p[2] + 722 * p[3]) \div 10000

RECURSIVE PowerSum(_, _, _, _)
\* the sum over the pixels of px with luma in vs of (luma - c) to the power e
PowerSum(px, vs, c, e) ==
    IF vs = {} THEN 0
    ELSE LET v == CHOOSE x \in vs : TRUE
             k == Cardinality({q \in DOMAIN px : LumaOf(px[q]) = v})
         IN  k * (IF e = 0 THEN 1 ELSE IF e = 1 THEN v - c ELSE (v - c) * (v - c))
             + PowerSum(px, vs \ {v}, c, e)

\* mean in [60, 210], standard deviation in [15, 90] (the variance is
\* (n * d2 - d1 * d1) / n^2 for the sums d1, d2 of the deviations and squared
\* deviations from any constant), both clip fractions at most 0.02
LightingAsClaimed(n, s, d1, d2, dark, bright) ==
    /\ 60 * n <= s /\ s <= 210 * n
    /\ 15 * 15 * n * n <= n * d2 - d1 * d1 /\ n * d2 - d1 * d1 <= 90 * 90 * n * n
    /\ 100 * dark <= 2 * n
    /\ 100 * bright <= 2 * n

\* the claimed verdict for the pixels px, n of them, whose lumas sum to s
LightingVerdict(px, vs, n, s) ==
    LightingAsClaimed(n, s, PowerSum(px, vs, s \div n, 1), PowerSum(px, vs, s \div n, 2),
                      PowerSum(px, {v \in vs : v <= 10}, 0, 0),
                      PowerSum(px, {v \in vs : v >= 245}, 0, 0))

\* the values of luma among the pixels px
LumasOf(px) == {LumaOf(px[q]) : q \in DOMAIN px}

UniformNotNearWhite(px) ==
    /\ \A q \in DOMAIN px : px[q] = px[<<0, 0>>]
    /\ \E c \in 1 .. 3 : px[<<0, 0>>][c] < 245

\* the premises of C12: a size x size image for params.size = size, landmarks
\* with (chin.y - forehead.y) / height in [0.50, 0.69] and
\* |nose.x - width / 2| <= 0.08 * width
WellFramed ==
    /\ lm # None
    /\ processed_rgb.w = vparams.size
    /\ processed_rgb.h = vparams.size
    /\ 50 * processed_rgb.h <= 100 * (lm.chin.y - lm.forehead.y)
    /\ 100 * (lm.chin.y - lm.forehead.y) <= 69 * processed_rgb.h
    /\ 100 * (2 * lm.nose.x - processed_rgb.w) <= 16 * processed_rgb.w
    /\ 100 * (processed_rgb.w - 2 * lm.nose.x) <= 16 * processed_rgb.w

\* C12: for a well-framed size x size image Size, Head ratio and Centering
\* pass; if its pixels are of one colour that is not near-white, Background
\* whiteness fails and the report does not pass.  The instance of the claim,
\* 600 x 600 with nose (300, 250), forehead (300, 100), chin (300, 430) and
\* default params, has ratio 330/600 and offset 0 and passes the three rules.
C12_WellFramedScenario ==
    /\ (vpc = "returned" /\ WellFramed) =>
          /\ report.results[1].passed
          /\ report.results[2].passed
          /\ report.results[3].passed
          /\ UniformNotNearWhite(img_rgb.px) =>
                ~report.results[4].passed /\ ~report.passed
    /\ SizeRule([w |-> 600, h |-> 600], ProcessingParams(600, 62, TRUE)).passed
    /\ HeadRatioRule(Point(300, 100), Point(300, 430), 600).passed
    /\ HeadRatioRule(Point(300, 100), Point(300, 430), 600).metrics.head_ratio
          = [n |-> 330, d |-> 600]
    /\ CenteringRule(Point(300, 250), 600).passed
    /\ CenteringRule(Point(300, 250), 600).metrics.dx_px.n = 0

\* C12 witness: a grey image of the expected size with the nose on the centre
\* line and the head half the height: three rules pass, Background whiteness
\* fails, the report fails
C12_Witness ==
    /\ vpc = "returned"
    /\ WellFramed
    /\ processed_rgb.w > 2 * 10
    /\ UniformNotNearWhite(img_rgb.px)
    /\ 2 * lm.nose.x = processed_rgb.w
    /\ 2 * (lm.chin.y - lm.forehead.y) = processed_rgb.h
    /\ report.results[1].passed /\ report.results[2].passed /\ report.results[3].passed
    /\ ~report.results[4].passed
    /\ ~report.passed

(***************************************************************************)
(* Claims about the scale of process_passport_photo (SpecNormalize).       *)
(***************************************************************************)
\* C13: once the image is resized, scale is (head_ratio * size) / H whatever
\* the width and height of the source; H * scale is within one pixel of
\* round(head_ratio * size); both sides of the image are multiplied by scale
\* and rounded, so a head that fits in the image is within one pixel of
\* round(head_ratio * size) high in the resized pixels too; and the crop
\* centre is (nose.x * scale, nose.y * scale).
C13_OneScaleForBothAxes ==
    bgr_rs # None =>
        /\ scale.d > 0
        /\ scale.n * 100 * head_height_px = nargs.head_ratio * nargs.size * scale.d
        /\ Abs(head_height_px * scale.n - PyRound(nargs.head_ratio * nargs.size, 100) * scale.d)
              <= scale.d
        /\ 2 * Abs(bgr_rs.w * scale.d - pil.w * scale.n) <= scale.d
        /\ 2 * Abs(bgr_rs.h * scale.d - pil.h * scale.n) <= scale.d
        /\ head_height_px <= pil.h =>
              Abs(head_height_px * bgr_rs.h - PyRound(nargs.head_ratio * nargs.size, 100) * pil.h)
                 <= pil.h
        /\ nose_rs.x.n * scale.d = nlm.nose.x * scale.n * nose_rs.x.d
        /\ nose_rs.y.n * scale.d = nlm.nose.y * scale.n * nose_rs.y.d
        /\ (cropped # None /\ cropped.patch # None) =>
              /\ cropped.patch.sx - cropped.patch.dx
                    = PyRound(2 * nlm.nose.x * scale.n - nargs.size * scale.d, 2 * scale.d)
              /\ cropped.patch.sy - cropped.patch.dy
                    = PyRound(2 * nlm.nose.y * scale.n - nargs.size * scale.d, 2 * scale.d)

\* C13 witness: an image that is not square was resized by a scale that is
\* not a whole number, its height was rounded, and the crop was taken
C13_Witness ==
    /\ npc = "returned"
    /\ pil.w # pil.h
    /\ scale.n % scale.d # 0
    /\ bgr_rs.h * scale.d # pil.h * scale.n
    /\ head_height_px > 1
    /\ cropped.patch # None
    /\ nlm.nose.x > 0

(***************************************************************************)
(* Claims about format_report_text and the frozen report (SpecReport).     *)
(***************************************************************************)
\* the line of the text for the result r, as claimed
ClaimedRuleLine(r) ==
    [glyph |-> IF r.passed THEN "U+2705" ELSE "U+274C", head |-> r.rule_id,
     message |-> r.message]

\* C14: every text format_report_text gives for a report has 4 +
\* len(report.results) lines: the title, the separator, 'Overall: PASS' or
\* 'Overall: FAIL' by report.passed, a blank line, then for each result in
\* the stored order its glyph by its own passed flag, its rule_id and its
\* message; two texts for the same report are the same.
C14_ReportTextLines ==
    \A k \in 1 .. Len(texts) :
        /\ Len(texts[k]) = 4 + Len(rreport.results)
        /\ texts[k][1].head = "PassportShop Validation Report"
        /\ texts[k][2].head = "--------------------------------"
        /\ texts[k][3].head = (IF rreport.passed THEN "Overall: PASS" ELSE "Overall: FAIL")
        /\ texts[k][4].head = ""
        /\ \A j \in 1 .. 4 : texts[k][j].glyph = "" /\ texts[k][j].message.text = ""
        /\ \A i \in 1 .. Len(rreport.results) :
              texts[k][4 + i] = ClaimedRuleLine(rreport.results[i])
        /\ texts[k] = texts[1]

\* C14 witness: a failed report with passed and failed results was formatted
\* twice
C14_Witness ==
    /\ Len(texts) = 2
    /\ ~rreport.passed
    /\ texts[2][5].glyph = "U+2705"
    /\ texts[2][6].glyph = "U+274C"
    /\ Len(texts[2]) = 9

\* C16: a report and its results never change once constructed: every
\* assignment to passed, results, rule_id, message or metrics is rejected
\* and leaves the report as it was, and neither format_report_text nor the
\* rendering of the report changes the passed flag, the sequence of results
\* or a field of a result.
C16_ReportNeverChanges ==
    [][/\ rreport # None => rreport' = rreport
       /\ assigned' # None => assigned'.raised]_vars

\* C16 witness: the report was formatted and rendered, the last assignment
\* tried, to the message of a result, was rejected, and the report is one
\* the validator built
C16_Witness ==
    /\ rreport \in Reports
    /\ Len(texts) > 0
    /\ tree # None
    /\ assigned # None
    /\ assigned.raised
    /\ assigned.target > 0
    /\ assigned.name = "message"

(***************************************************************************)
(* Claims about ProcessingParams (SpecParams), AppState.reset and          *)
(* TempPaths.cleanup (SpecState).                                          *)
(***************************************************************************)
\* C15: a ProcessingParams is never changed in place: an assignment to a
\* field is rejected, and every object alive keeps its value over every
\* step, replace() and the sync from the UI included; so the params a worker
\* in flight captured are still the params in effect when it was started.
C15_ParamsNeverMutated ==
    /\ passigned # None => passigned.raised
    /\ \A k \in 1 .. Len(snaps) : heap.objs[snaps[k].id] = snaps[k].value

\* C15 witness: a process worker is in flight with the params of its start
\* while state.params has moved on to other values, and an assignment to a
\* field was rejected
C15_Witness ==
    /\ Len(snaps) > 0
    /\ snaps[1].kind = "process"
    /\ heap.objs[astate.params] # snaps[1].value
    /\ astate.params # snaps[1].id
    /\ heap.objs[snaps[1].id] = snaps[1].value
    /\ passigned # None
    /\ passigned.raised

\* C17: after reset() the fields input_path, original_pil, processed_pil,
\* processed_temp_path and validation_report are None and params equals the
\* default ProcessingParams: size 600, head_ratio 0.62, remove_background
\* true, whatever the fields and params were before.
C17_ResetRestoresDefaults ==
    (alast # None /\ alast.op = "reset") =>
        /\ astate.input_path = None
        /\ astate.original_pil = None
        /\ astate.processed_pil = None
        /\ astate.processed_temp_path = None
        /\ astate.validation_report = None
        /\ heap.objs[astate.params] = [size |-> 600, head_ratio |-> 62,
                                       remove_background |-> TRUE]

\* C17 witness: reset() was called with the five fields set and params
\* other than the defaults
C17_Witness ==
    /\ alast # None
    /\ alast.op = "reset"
    /\ alast.fields = 5
    /\ ~alast.defaults
    /\ astate.input_path = None

\* C18 as claimed: after cleanup() returns the preview file does not exist,
\* cleanup() has not raised, and a call that follows another changed nothing.
C18_AsClaimed ==
    (alast # None /\ alast.op = "cleanup") =>
        /\ preview = "absent"
        /\ ~alast.raised
        /\ alast.row > 1 => preview = alast.before

\* C18 amended: cleanup() never raises; after it returns the preview file
\* does not exist unless it could not be removed, and then it is left as it
\* was; a call that follows another changes nothing.
C18_CleanupBestEffort ==
    (alast # None /\ alast.op = "cleanup") =>
        /\ ~alast.raised
        /\ alast.before # "locked" => preview = "absent"
        /\ alast.before = "locked" => preview = "locked"
        /\ alast.row > 1 => preview = alast.before

\* C18 witness: cleanup() was called three times in a row on a file that was
\* there and could be removed
C18_Witness ==
    /\ alast # None
    /\ alast.op = "cleanup"
    /\ alast.row = 3
    /\ alast.before = "absent"
    /\ preview = "absent"

(***************************************************************************)
(* Claims about the pixels and the window of _crop_square_with_padding     *)
(* (SpecCrop).                                                             *)
(***************************************************************************)
\* round(cx - size / 2) as Python rounds it, for the centre coordinate c
RoundedOffset(c, size) == PyRound(2 * c.n - size * c.d, 2 * c.d)

\* what the claim says the pixel of column i, row j of the output is
ClaimedPixel(img, left, top, i, j, fill) ==
    IF 0 <= left + i /\ left + i < img.w /\ 0 <= top + j /\ top + j < img.h
      THEN img.px[<<left + i, top + j>>]
      ELSE fill

\* C19: with left = round(cx - size/2) and top = round(cy - size/2), the
\* output's pixel at column i, row j is the image's pixel at column left + i,
\* row top + j where that lies in the image and the fill colour elsewhere;
\* nothing wraps around, no call raises, and the source image is as it was.
C19_CropCopiesIntersection ==
    cpc = "returned" =>
        /\ ~cout.raised
        /\ cout.value.w = csize
        /\ cout.value.h = csize
        /\ \A i \in 0 .. csize - 1 : \A j \in 0 .. csize - 1 :
              PixelAt(cout.value, i, j) =
                  ClaimedPixel(cimg, RoundedOffset(ccenter.x, csize),
                               RoundedOffset(ccenter.y, csize), i, j, cpad)
        /\ \A p \in Positions(cimg.w, cimg.h) : cimg.px[p] = <<p[1], p[2], 128>>

\* C19 witness: a square that sticks out over the left and the bottom of
\* the image, so that a part is copied and a part is fill
C19_Witness ==
    /\ cpc = "returned"
    /\ csize > 1
    /\ RoundedOffset(ccenter.x, csize) < 0
    /\ RoundedOffset(ccenter.x, csize) + csize > 0
    /\ RoundedOffset(ccenter.y, csize) > 0
    /\ RoundedOffset(ccenter.y, csize) < cimg.h
    /\ RoundedOffset(ccenter.y, csize) + csize > cimg.h
    /\ PixelAt(cout.value, 0, 0) = cpad
    /\ PixelAt(cout.value, csize - 1, 0) # cpad

\* the centre moved right by k pixels
MovedRight(center_xy, k) ==
    [center_xy EXCEPT !.x = [n |-> center_xy.x.n + k * center_xy.x.d, d |-> center_xy.x.d]]

\* C20 as claimed: the left of the window is a nearest integer to
\* cx - size/2, the same input gives the same window, and moving the centre
\* by a whole number k of pixels moves the window by exactly k pixels (an
\* exact half goes the same way wherever it falls).
C20_AsClaimed ==
    cpc = "returned" =>
        /\ Abs(2 * ccenter.x.d * CropWindow(ccenter, csize).left
               - (2 * ccenter.x.n - csize * ccenter.x.d)) <= ccenter.x.d
        /\ \A k \in (0 - MaxCoord) .. MaxCoord :
              /\ CropWindow(MovedRight(ccenter, k), csize).left
                     = CropWindow(ccenter, csize).left + k
              /\ CropWindow(MovedRight(ccenter, k), csize).top
                     = CropWindow(ccenter, csize).top

(***************************************************************************)
(* Claims about process_passport_photo and validate_passport_photo         *)
(* together (SpecNormalize).                                               *)
(***************************************************************************)
\* the coordinate c of a landmark of the input as it lies in the output:
\* c * scale - offset
MappedCoord(c, sc, offset) == FlSub(FlMulInt(sc, c), FlOfInt(offset))

\* Head ratio and Centering pass on an output size wide and high for the
\* mapped forehead row, chin row and nose column, and the nose is within
\* half a pixel of the horizontal centre
GeometryAgrees(forehead_y, chin_y, nose_x, size, head_ratio) ==
    /\ HeadRatioOkFloat(HeadRatioFloat(forehead_y, chin_y, size))
    /\ CenteringOkFloat(nose_x, size)
    /\ FlLe(FlAbs(FlSub(nose_x, FlDivInt(FlOfInt(size), 2))), FlDivInt(FlOfInt(1), 2))

\* the landmarks marks of the input, mapped by the transform of the call
\* with this size and head_ratio, agree with the validator
MappedGeometryAgrees(marks, sc, size, head_ratio) ==
    GeometryAgrees(MappedCoord(marks.forehead.y, sc, CropOffsetFloat(marks.nose.y, sc, size)),
                   MappedCoord(marks.chin.y, sc, CropOffsetFloat(marks.nose.y, sc, size)),
                   MappedCoord(marks.nose.x, sc, CropOffsetFloat(marks.nose.x, sc, size)),
                   size, head_ratio)

\* C21 as claimed: when process_passport_photo has saved its output for
\* landmarks with the chin below the forehead, validating the output with
\* the same params and with the landmarks of the input mapped by the
\* transform of the call (times scale, minus the left and top of the crop)
\* makes Size, Head ratio and Centering pass (the measured head ratio being
\* params.head_ratio, which lies in the range of the rule), and the nose is
\* within half a pixel of the horizontal centre.
C21_AsClaimed ==
    (npc = "returned" /\ nlm.chin.y > nlm.forehead.y) =>
        /\ SizeRule(saved.image,
                    ProcessingParams(nargs.size, nargs.head_ratio,
                                     nargs.remove_background)).passed
        /\ MappedGeometryAgrees(nlm, ScaleForFloat(nargs.head_ratio, nargs.size,
                                                   head_height_px),
                                nargs.size, nargs.head_ratio)

(***************************************************************************)
(* Claims about the window (SpecGui, SpecGuiFair).                         *)
(***************************************************************************)
\* C22: right after on_upload has loaded an image, input_path and
\* original_pil are the new file and processed_pil, processed_temp_path and
\* validation_report are None, whatever they were; after a cancelled dialog
\* or a failed load every field of the AppState is as it was.
C22_UploadInvalidatesDownstream ==
    [][glast'.op = "upload" =>
          IF glast'.effect
            THEN /\ gstate'.input_path = [some |-> glast'.path]
                 /\ gstate'.original_pil = [some |-> glast'.path]
                 /\ gstate'.processed_pil = None
                 /\ gstate'.processed_temp_path = None
                 /\ gstate'.validation_report = None
                 /\ gstate'.params = gstate.params
            ELSE gstate' = gstate]_vars

\* C22 witness: a file was loaded when all five fields were set, the report
\* included, and the three downstream fields are None
C22_Witness ==
    /\ glast.op = "upload"
    /\ glast.effect
    /\ glast.fields = 5
    /\ gstate.input_path = [some |-> glast.path]
    /\ gstate.processed_pil = None
    /\ gstate.processed_temp_path = None
    /\ gstate.validation_report = None

\* C23 as claimed: in every state of the window a report is stored only
\* with a processed image, and was computed from that image; a processed
\* image is stored only with an input path, and was made from that file.
C23_AsClaimed ==
    /\ gstate.validation_report # None =>
          /\ gstate.processed_pil # None
          /\ gstate.validation_report.some.of = gstate.processed_pil.some
    /\ gstate.processed_pil # None =>
          /\ gstate.input_path # None
          /\ gstate.processed_pil.some.input = gstate.input_path.some

\* C24 as claimed: at most one worker is in flight at any time, and no
\* upload, process, validate or reset takes effect, by button or by
\* shortcut, while one is.
C24_AsClaimed ==
    /\ InFlight <= 1
    /\ (glast.op \in {"upload", "process", "validate", "reset"} /\ glast.effect) =>
          glast.inflight = 0

\* the worker r has been started and its callback has not run yet
WorkerStarted(r) == (\E w \in running : w.run = r) \/ (\E k \in 1 .. Len(posted) : posted[k].run = r)

\* the callback of the worker r has just run and the window is not busy
WorkerCompleted(r) ==
    /\ glast.op \in {"finish_process", "finish_validate"}
    /\ glast.run = r
    /\ ~busy

\* C25: with the worker threads and the event loop scheduled fairly, every
\* worker started leads to its completion callback having run and the
\* window out of the busy state, whether the run succeeded, raised, or its
\* file could not be loaded; and right after a failed processing run
\* processed_pil and validation_report are None.
C25_WorkersComplete ==
    /\ \A r \in 1 .. MaxRuns : WorkerStarted(r) ~> WorkerCompleted(r)
    /\ [](glast.op = "finish_process" /\ ~glast.effect =>
              gstate.processed_pil = None /\ gstate.validation_report = None)

\* C25 witness: the callback of the second processing run, which failed,
\* has run while the image of the first was stored; no worker is left and
\* the window is not busy
C25_Witness ==
    /\ glast.op = "finish_process"
    /\ ~glast.effect
    /\ glast.run = 2
    /\ glast.fields = 4
    /\ InFlight = 0
    /\ ~busy
    /\ gstate.processed_pil = None
    /\ gstate.validation_report = None
    /\ buttons.process
    /\ ~buttons.validate

====
